---- MODULE Spec2Model ----
(***************************************************************************)
(* hppx: HTTP parameter pollution / prototype pollution sanitizer.         *)
(* Model of src/src/index.ts: key guard, path expander, tree sanitizer,    *)
(* merge reducer, whitelist matcher, restoration pass and sanitize().      *)
(*                                                                         *)
(* Representation.  A JavaScript string is a sequence of characters, each  *)
(* character a one-element atom ("a", ".", "[", "NUL", ...).  A value of   *)
(* the tree is a record [t, n, s, kids]: t is the type tag, n the number   *)
(* of a "num", s the characters of a "str", kids the elements of an "arr"  *)
(* or the ordered entries [k, v] of an "obj" (JavaScript objects keep      *)
(* their keys in insertion order).                                         *)
(***************************************************************************)
EXTENDS Integers, Sequences, FiniteSets, TLC

VARIABLES
    input,          \* argument `input` of the running sanitize call
    opts,           \* argument `options`, defaults applied (index.ts 373-384)
    pc,             \* position inside sanitize: start/expanded/reduced/done/failed
    expanded,       \* expandedInput (index.ts 374)
    cleaned,        \* cleaned (index.ts 387, mutated at 398, returned at 400)
    pollutedTree,   \* pollutedTree (index.ts 387, mutated at 398)
    pollutedKeys,   \* pollutedKeys of detectAndReduce (index.ts 318)
    keyCount,       \* keyCount of detectAndReduce (index.ts 316)
    err,            \* the error thrown by the call: none/depth/keys
    ncalls,         \* number of sanitize calls started in this behaviour
    mvalues,        \* argument `values` of a direct mergeValues application
    mstrategy,      \* argument `strategy` of a direct mergeValues application
    mresult,        \* its result
    pathCache,      \* pathCache of buildWhitelistHelpers (index.ts 206)
    pathSegmentCache, \* pathSegmentCache, shared by all calls (index.ts 70)
    mpath,          \* argument `pathParts` of a direct isWhitelistedPath call
    mmatch,         \* its result
    received,       \* the request as the first instance received it
    req,            \* the request object a middleware chain works on
    chain,          \* the hppx middleware instances mounted, in order
    mi,             \* index in `chain` of the instance to run next
    events          \* what the instances did to the outside, in order

matchVars == <<pathCache, pathSegmentCache, mpath, mmatch>>

mwVars == <<received, req, chain, mi, events>>

vars == <<input, opts, pc, expanded, cleaned, pollutedTree, pollutedKeys,
          keyCount, err, ncalls, mvalues, mstrategy, mresult, matchVars,
          mwVars>>

---------------------------------------------------------------------------
(* Values *)

Num(i) == [t |-> "num", n |-> i, s |-> <<>>, kids |-> <<>>]
Str(cs) == [t |-> "str", n |-> 0, s |-> cs, kids |-> <<>>]
Null == [t |-> "null", n |-> 0, s |-> <<>>, kids |-> <<>>]
Undefined == [t |-> "undef", n |-> 0, s |-> <<>>, kids |-> <<>>]
Arr(es) == [t |-> "arr", n |-> 0, s |-> <<>>, kids |-> es]
Obj(ps) == [t |-> "obj", n |-> 0, s |-> <<>>, kids |-> ps]
Entry(key, val) == [k |-> key, v |-> val]
EmptyObj == Obj(<<>>)

Min(a, b) == IF a < b THEN a ELSE b

\* Faulty variant of Slice: the limit is ignored.
Slice_unlimited(elems, limit) == elems

\* elems.slice(0, limit)
Slice(elems, limit) == SubSeq(elems, 1, Min(Len(elems), limit))

isArray(v) == v.t = "arr"

isPlainObject(v) == v.t = "obj"

\* Object.keys(o): the own keys in insertion order
ObjectKeys(o) == [i \in 1..Len(o.kids) |-> o.kids[i].k]

HasKey(o, key) == \E i \in 1..Len(o.kids) : o.kids[i].k = key

\* o[key]; undefined when the key is absent
Get(o, key) ==
    IF HasKey(o, key)
    THEN LET i == CHOOSE j \in 1..Len(o.kids) : o.kids[j].k = key IN o.kids[i].v
    ELSE Undefined

\* o[key] = val: an existing key keeps its position, a new key is appended
Put(o, key, val) ==
    IF HasKey(o, key)
    THEN Obj([i \in 1..Len(o.kids) |->
                 IF o.kids[i].k = key THEN Entry(key, val) ELSE o.kids[i]])
    ELSE Obj(Append(o.kids, Entry(key, val)))

RECURSIVE SeqWithout(_, _)
SeqWithout(ps, key) ==
    IF ps = <<>> THEN <<>>
    ELSE IF Head(ps).k = key THEN SeqWithout(Tail(ps), key)
    ELSE <<Head(ps)>> \o SeqWithout(Tail(ps), key)

\* delete o[key]
Delete(o, key) == Obj(SeqWithout(o.kids, key))

---------------------------------------------------------------------------
(* Strings *)

DOT == "."
LBR == "["
RBR == "]"
NUL == "NUL"
SPACE == " "

Includes(str, c) == \E i \in 1..Len(str) : str[i] = c

StartsWith(str, p) == Len(str) >= Len(p) /\ SubSeq(str, 1, Len(p)) = p

\* parts.join(".")
RECURSIVE Join(_)
Join(parts) ==
    IF parts = <<>> THEN <<>>
    ELSE IF Len(parts) = 1 THEN parts[1]
    ELSE parts[1] \o <<DOT>> \o Join(Tail(parts))

\* str.split("."): empty pieces are kept, "" gives [""]
RECURSIVE SplitFrom(_, _)
SplitFrom(str, cur) ==
    IF str = <<>> THEN <<cur>>
    ELSE IF Head(str) = DOT THEN <<cur>> \o SplitFrom(Tail(str), <<>>)
    ELSE SplitFrom(Tail(str), Append(cur, Head(str)))

Split(str) == SplitFrom(str, <<>>)

\* str.trim()
RECURSIVE TrimLeft(_)
TrimLeft(str) ==
    IF str # <<>> /\ Head(str) = SPACE THEN TrimLeft(Tail(str)) ELSE str

RECURSIVE TrimRight(_)
TrimRight(str) ==
    IF str # <<>> /\ str[Len(str)] = SPACE
    THEN TrimRight(SubSeq(str, 1, Len(str) - 1)) ELSE str

\* variant of Trim that leaves the white space at the end
Trim_leftOnly(str) == TrimLeft(str)

Trim(str) == TrimRight(TrimLeft(str))

---------------------------------------------------------------------------
(* Key guard *)

kProto == <<"_", "_", "p", "r", "o", "t", "o", "_", "_">>
kPrototype == <<"p", "r", "o", "t", "o", "t", "y", "p", "e">>
kConstructor == <<"c", "o", "n", "s", "t", "r", "u", "c", "t", "o", "r">>

DANGEROUS_KEYS == {kProto, kPrototype, kConstructor}

\* the null result of sanitizeKey (no string of characters equals it)
NullKey == <<"<null>">>

\* !safeKey: null and the empty string are both falsy
Falsy(key) == key = NullKey \/ key = <<>>

OnlyDotsOrBrackets(key) ==
    Len(key) >= 1 /\ \A i \in 1..Len(key) : key[i] \in {DOT, LBR, RBR}

\* Faulty variant of sanitizeKey: the reserved names are not rejected.
sanitizeKey_keepsReserved(key, maxKeyLength) ==
    IF Includes(key, NUL) THEN NullKey
    ELSE IF Len(key) > maxKeyLength THEN NullKey
    ELSE IF Len(key) > 1 /\ OnlyDotsOrBrackets(key) THEN NullKey
    ELSE key

\* Faulty variant of sanitizeKey: a null character is not rejected.
sanitizeKey_keepsNul(key, maxKeyLength) ==
    IF key \in DANGEROUS_KEYS THEN NullKey
    ELSE IF Len(key) > maxKeyLength THEN NullKey
    ELSE IF Len(key) > 1 /\ OnlyDotsOrBrackets(key) THEN NullKey
    ELSE key

\* Faulty variant of sanitizeKey: the length limit is not applied.
sanitizeKey_keepsLong(key, maxKeyLength) ==
    IF key \in DANGEROUS_KEYS THEN NullKey
    ELSE IF Includes(key, NUL) THEN NullKey
    ELSE IF Len(key) > 1 /\ OnlyDotsOrBrackets(key) THEN NullKey
    ELSE key

sanitizeKey(key, maxKeyLength) ==
    IF key \in DANGEROUS_KEYS THEN NullKey
    ELSE IF Includes(key, NUL) THEN NullKey
    ELSE IF Len(key) > maxKeyLength THEN NullKey
    ELSE IF Len(key) > 1 /\ OnlyDotsOrBrackets(key) THEN NullKey
    ELSE key

---------------------------------------------------------------------------
(* Path expander *)

\* key.replace(/\]/g, "").replace(/\[/g, ".")
RECURSIVE Dotted(_)
Dotted(key) ==
    IF key = <<>> THEN <<>>
    ELSE IF Head(key) = RBR THEN Dotted(Tail(key))
    ELSE IF Head(key) = LBR THEN <<DOT>> \o Dotted(Tail(key))
    ELSE <<Head(key)>> \o Dotted(Tail(key))

\* Faulty variant of parsePathSegments: brackets are not turned into dots.
parsePathSegments_keepsBrackets(key) ==
    SelectSeq(Split(key), LAMBDA seg : Len(seg) > 0)

parsePathSegments(key) == SelectSeq(Split(Dotted(key)), LAMBDA seg : Len(seg) > 0)

RECURSIVE setIn(_, _, _)
setIn(target, path, value) ==
    IF path = <<>> THEN target
    ELSE LET k == Head(path) IN
         IF k \in DANGEROUS_KEYS THEN target
         ELSE IF Len(path) = 1 THEN Put(target, k, value)
         ELSE LET cur == IF isPlainObject(Get(target, k)) THEN Get(target, k)
                         ELSE EmptyObj
              IN Put(target, k, setIn(cur, Tail(path), value))

RECURSIVE expandObjectPaths(_, _)
RECURSIVE ExpandKeys(_, _, _, _)
\* the loop of expandObjectPaths from entry i on, result being built so far
ExpandKeys(obj, i, maxKeyLength, result) ==
    IF i > Len(obj.kids) THEN result
    ELSE LET rawKey == obj.kids[i].k
             safeKey == sanitizeKey(rawKey, maxKeyLength)
             value == obj.kids[i].v
             expandedValue == IF isPlainObject(value)
                              THEN expandObjectPaths(value, maxKeyLength)
                              ELSE value
             segments == parsePathSegments(safeKey)
         IN IF Falsy(safeKey) THEN ExpandKeys(obj, i + 1, maxKeyLength, result)
            ELSE IF (Includes(safeKey, DOT) \/ Includes(safeKey, LBR))
                    /\ Len(segments) > 0
            THEN ExpandKeys(obj, i + 1, maxKeyLength,
                            setIn(result, segments, expandedValue))
            ELSE ExpandKeys(obj, i + 1, maxKeyLength,
                            Put(result, safeKey, expandedValue))

expandObjectPaths(obj, maxKeyLength) == ExpandKeys(obj, 1, maxKeyLength, EmptyObj)

---------------------------------------------------------------------------
(* Deep clone, merge reducer *)

RECURSIVE safeDeepClone(_, _, _)
RECURSIVE CloneKeys(_, _, _, _, _)
CloneKeys(obj, i, maxKeyLength, maxArrayLength, out) ==
    IF i > Len(obj.kids) THEN out
    ELSE LET k == obj.kids[i].k IN
         IF Falsy(sanitizeKey(k, maxKeyLength))
         THEN CloneKeys(obj, i + 1, maxKeyLength, maxArrayLength, out)
         ELSE CloneKeys(obj, i + 1, maxKeyLength, maxArrayLength,
                        Put(out, k, safeDeepClone(obj.kids[i].v, maxKeyLength,
                                                  maxArrayLength)))

safeDeepClone(v, maxKeyLength, maxArrayLength) ==
    IF isArray(v)
    THEN LET limited == Slice(v.kids, maxArrayLength)
         IN Arr([i \in 1..Len(limited) |->
                    safeDeepClone(limited[i], maxKeyLength, maxArrayLength)])
    ELSE IF isPlainObject(v)
    THEN CloneKeys(v, 1, maxKeyLength, maxArrayLength, EmptyObj)
    ELSE v

\* the reduce of the "combine" case: arrays contribute their elements
RECURSIVE Concat(_)
Concat(values) ==
    IF values = <<>> THEN <<>>
    ELSE (IF isArray(Head(values)) THEN Head(values).kids ELSE <<Head(values)>>)
         \o Concat(Tail(values))

\* Faulty variant of mergeValues: the default arm keeps the first value.
mergeValues_defaultFirst(values, strategy) ==
    CASE strategy = "keepFirst" ->
            IF values = <<>> THEN Undefined ELSE values[1]
      [] strategy = "keepLast" ->
            IF values = <<>> THEN Undefined ELSE values[Len(values)]
      [] strategy = "combine" -> Arr(Concat(values))
      [] OTHER ->
            IF values = <<>> THEN Undefined ELSE values[1]

\* Faulty variant of mergeValues: combine nests the values instead of
\* splicing the elements of arrays.
mergeValues_combineNests(values, strategy) ==
    CASE strategy = "keepFirst" ->
            IF values = <<>> THEN Undefined ELSE values[1]
      [] strategy = "combine" -> Arr(values)
      [] OTHER ->
            IF values = <<>> THEN Undefined ELSE values[Len(values)]

mergeValues(values, strategy) ==
    CASE strategy = "keepFirst" ->
            IF values = <<>> THEN Undefined ELSE values[1]
      [] strategy = "keepLast" ->
            IF values = <<>> THEN Undefined ELSE values[Len(values)]
      [] strategy = "combine" -> Arr(Concat(values))
      [] OTHER ->
            IF values = <<>> THEN Undefined ELSE values[Len(values)]

---------------------------------------------------------------------------
(* Whitelist matcher *)

\* Faulty variant of isWhitelistedPath: the leaf rule is missing.
isWhitelistedPath_noLeaf(whitelist, pathParts) ==
    IF pathParts = <<>> THEN FALSE
    ELSE LET full == Join(pathParts)
             prefixes == {w \in whitelist : Len(w) > 0}
         IN \/ full \in whitelist
            \/ \E p \in prefixes : full = p \/ StartsWith(full, p \o <<DOT>>)

\* Faulty variant of isWhitelistedPath: the leaf rule looks at every segment.
isWhitelistedPath_anySegment(whitelist, pathParts) ==
    IF pathParts = <<>> THEN FALSE
    ELSE LET full == Join(pathParts)
             prefixes == {w \in whitelist : Len(w) > 0}
         IN \/ full \in whitelist
            \/ \E i \in 1..Len(pathParts) : pathParts[i] \in whitelist
            \/ \E p \in prefixes : full = p \/ StartsWith(full, p \o <<DOT>>)

\* isWhitelistedPath of buildWhitelistHelpers(whitelist); `whitelist` is the
\* set of the normalized whitelist's entries (exact), its non-empty entries
\* are the prefixes
isWhitelistedPath(whitelist, pathParts) ==
    IF pathParts = <<>> THEN FALSE
    ELSE LET full == Join(pathParts)
             prefixes == {w \in whitelist : Len(w) > 0}
         IN \/ full \in whitelist
            \/ pathParts[Len(pathParts)] \in whitelist
            \/ \E p \in prefixes : full = p \/ StartsWith(full, p \o <<DOT>>)

PathCacheCap == 1000

\* isWhitelistedPath with its cache: `cache` is the set of entries
\* [full, result] of pathCache; the result is the cached one if the joined
\* path has an entry, and a computed result is stored while the cache holds
\* fewer than PathCacheCap entries
isWhitelistedPathCached(whitelist, cache, pathParts) ==
    IF pathParts = <<>> THEN [result |-> FALSE, cache |-> cache]
    ELSE LET full == Join(pathParts)
         IN IF \E e \in cache : e.full = full
            THEN [result |-> (CHOOSE e \in cache : e.full = full).result,
                  cache |-> cache]
            ELSE LET result == isWhitelistedPath(whitelist, pathParts)
                 IN [result |-> result,
                     cache |-> IF Cardinality(cache) < PathCacheCap
                               THEN cache \cup {[full |-> full, result |-> result]}
                               ELSE cache]

---------------------------------------------------------------------------
(* Restoration pass *)

\* curPath.flatMap(seg => seg.includes(".") ? seg.split(".") : [seg])
RECURSIVE NormalizedPath(_)
NormalizedPath(curPath) ==
    IF curPath = <<>> THEN <<>>
    ELSE (IF Includes(Head(curPath), DOT) THEN Split(Head(curPath))
          ELSE <<Head(curPath)>>) \o NormalizedPath(Tail(curPath))

\* Faulty variant of walk: a child object emptied by the pass is not pruned.
RECURSIVE Walk_keepsHusks(_, _, _, _, _, _)
Walk_keepsHusks(node, keys, i, path, reqPart, whitelist) ==
    IF i > Len(keys) THEN [node |-> node, req |-> reqPart]
    ELSE LET k == keys[i]
             v == Get(node, k)
             curPath == Append(path, k)
         IN IF isPlainObject(v)
            THEN LET sub == Walk_keepsHusks(v, ObjectKeys(v), 1, curPath,
                                            reqPart, whitelist)
                 IN Walk_keepsHusks(Put(node, k, sub.node), keys, i + 1, path,
                                    sub.req, whitelist)
            ELSE IF isWhitelistedPath(whitelist, curPath)
            THEN Walk_keepsHusks(Delete(node, k), keys, i + 1, path,
                                 setIn(reqPart, NormalizedPath(curPath), v),
                                 whitelist)
            ELSE Walk_keepsHusks(node, keys, i + 1, path, reqPart, whitelist)

\* walk(node, path) over the keys snapshot `keys` from index i on; the pair
\* [node, reqPart] is the polluted node and the request part as mutated so far
RECURSIVE Walk(_, _, _, _, _, _)
Walk(node, keys, i, path, reqPart, whitelist) ==
    IF i > Len(keys) THEN [node |-> node, req |-> reqPart]
    ELSE LET k == keys[i]
             v == Get(node, k)
             curPath == Append(path, k)
         IN IF isPlainObject(v)
            THEN LET sub == Walk(v, ObjectKeys(v), 1, curPath, reqPart, whitelist)
                     node1 == IF Len(sub.node.kids) = 0 THEN Delete(node, k)
                              ELSE Put(node, k, sub.node)
                 IN Walk(node1, keys, i + 1, path, sub.req, whitelist)
            ELSE IF isWhitelistedPath(whitelist, curPath)
            THEN Walk(Delete(node, k), keys, i + 1, path,
                      setIn(reqPart, NormalizedPath(curPath), v), whitelist)
            ELSE Walk(node, keys, i + 1, path, reqPart, whitelist)

\* Faulty variant of moveWhitelistedFromPolluted: the restored entries stay
\* in the polluted tree.
moveWhitelistedFromPolluted_keepsPolluted(reqPart, polluted, whitelist) ==
    LET r == Walk(polluted, ObjectKeys(polluted), 1, <<>>, reqPart, whitelist)
    IN [req |-> r.req, polluted |-> polluted]

\* result: [req |-> reqPart after the pass, polluted |-> polluted after it]
moveWhitelistedFromPolluted(reqPart, polluted, whitelist) ==
    LET r == Walk(polluted, ObjectKeys(polluted), 1, <<>>, reqPart, whitelist)
    IN [req |-> r.req, polluted |-> r.node]

---------------------------------------------------------------------------
(* Tree sanitizer *)

\* Faulty variant of InitialState: the key counter is kept from the
\* previous call.
InitialState_sharedCounter ==
    [keyCount |-> keyCount, polluted |-> EmptyObj, pollutedKeys |-> <<>>,
     err |-> "none"]

\* the state processNode closes over: keyCount, polluted, pollutedKeys, and
\* the error thrown so far ("none" while running)
InitialState ==
    [keyCount |-> 0, polluted |-> EmptyObj, pollutedKeys |-> <<>>, err |-> "none"]

RECURSIVE processNode(_, _, _, _, _)
RECURSIVE ProcessElements(_, _, _, _, _, _, _)
RECURSIVE ProcessKeys(_, _, _, _, _, _, _)

\* Faulty variant of ProcessElements: an array element is one level deeper
\* than its array.
ProcessElements_deeper(elems, i, path, depth, st, o, mapped) ==
    IF i > Len(elems) \/ st.err # "none" THEN [vs |-> mapped, st |-> st]
    ELSE LET r == processNode(elems[i], path, depth + 1, st, o)
         IN ProcessElements(elems, i + 1, path, depth, r.st, o, Append(mapped, r.v))

\* limitedNode.map(v => processNode(v, path, depth)) from element i on
ProcessElements(elems, i, path, depth, st, o, mapped) ==
    IF i > Len(elems) \/ st.err # "none" THEN [vs |-> mapped, st |-> st]
    ELSE LET r == processNode(elems[i], path, depth, st, o)
         IN ProcessElements(elems, i + 1, path, depth, r.st, o, Append(mapped, r.v))

\* the for loop over Object.keys(node) from entry i on
ProcessKeys(node, i, path, depth, st, o, out) ==
    IF st.err # "none" THEN [v |-> Undefined, st |-> st]
    ELSE IF i > Len(node.kids) THEN [v |-> out, st |-> st]
    ELSE LET rawKey == node.kids[i].k
             st1 == [st EXCEPT !.keyCount = @ + 1]
             safeKey == sanitizeKey(rawKey, o.maxKeyLength)
             r == processNode(node.kids[i].v, Append(path, safeKey), depth + 1, st1, o)
             value == IF r.v.t = "str" /\ o.trimValues THEN Str(Trim(r.v.s)) ELSE r.v
         IN IF st1.keyCount > o.maxKeys
            THEN [v |-> Undefined, st |-> [st1 EXCEPT !.err = "keys"]]
            ELSE IF Falsy(safeKey)
            THEN ProcessKeys(node, i + 1, path, depth, st1, o, out)
            ELSE IF r.st.err # "none" THEN [v |-> Undefined, st |-> r.st]
            ELSE ProcessKeys(node, i + 1, path, depth, r.st, o, Put(out, safeKey, value))

processNode(node, path, depth, st, o) ==
    IF node.t \in {"null", "undef"} THEN [v |-> node, st |-> st]
    ELSE IF isArray(node)
    THEN LET limitedNode == Slice(node.kids, o.maxArrayLength)
             m == ProcessElements(limitedNode, 1, path, depth, st, o, <<>>)
         IN IF m.st.err # "none" THEN [v |-> Undefined, st |-> m.st]
            ELSE IF o.mergeStrategy = "combine"
            THEN [v |-> mergeValues(m.vs, "combine"), st |-> m.st]
            ELSE [v |-> mergeValues(m.vs, o.mergeStrategy),
                  st |-> [m.st EXCEPT
                            !.polluted = setIn(@, path,
                                safeDeepClone(Arr(limitedNode), o.maxKeyLength,
                                              o.maxArrayLength)),
                            !.pollutedKeys = Append(@, Join(path))]]
    ELSE IF isPlainObject(node)
    THEN IF depth > o.maxDepth
         THEN [v |-> Undefined, st |-> [st EXCEPT !.err = "depth"]]
         ELSE ProcessKeys(node, 1, path, depth, st, o, EmptyObj)
    ELSE [v |-> node, st |-> st]

\* result: [cleaned, pollutedTree, pollutedKeys, keyCount, err]
detectAndReduce(inp, o) ==
    LET cloned == safeDeepClone(inp, o.maxKeyLength, o.maxArrayLength)
        r == processNode(cloned, <<>>, 0, InitialState, o)
    IN [cleaned |-> r.v, pollutedTree |-> r.st.polluted,
        pollutedKeys |-> r.st.pollutedKeys, keyCount |-> r.st.keyCount,
        err |-> r.st.err]

---------------------------------------------------------------------------
(* sanitize *)

DefaultMaxDepth == 20
DefaultMaxKeys == 5000
DefaultMaxArrayLength == 1000
DefaultMaxKeyLength == 200

\* sanitize(input, options) as one function: [err, cleaned, pollutedTree,
\* pollutedKeys]; err # "none" is the error the call throws
sanitize(inp, o) ==
    LET expandedInput == IF isPlainObject(inp)
                         THEN expandObjectPaths(inp, o.maxKeyLength) ELSE inp
        r == detectAndReduce(expandedInput, o)
        m == moveWhitelistedFromPolluted(r.cleaned, r.pollutedTree, o.whitelist)
    IN IF r.err # "none"
       THEN [err |-> r.err, cleaned |-> Undefined, pollutedTree |-> EmptyObj,
             pollutedKeys |-> <<>>]
       ELSE [err |-> "none", cleaned |-> m.req, pollutedTree |-> m.polluted,
             pollutedKeys |-> r.pollutedKeys]

---------------------------------------------------------------------------
(* The middleware: hppx(options) and hppxMiddleware(req, res, next) *)

(***************************************************************************)
(* A request is a record [props, locked, path, contentType, resStatus,      *)
(* production]: props maps the names of the properties the middleware      *)
(* touches to their values (Undefined when absent), locked is the set of   *)
(* property names that are neither configurable nor writable, path is      *)
(* req.path, contentType stands for the content-type header ("urlencoded"  *)
(* when it starts with application/x-www-form-urlencoded), resStatus tells *)
(* whether res.status is a function, production whether NODE_ENV is        *)
(* "production".  What an instance does to the outside is a sequence of    *)
(* events [kind, by, source, keys, err]: kind is logger, console.warn,     *)
(* console.error, callback, res400, next; by is the index of the instance; *)
(* keys the polluted keys it passes on; err the error it passes on.        *)
(***************************************************************************)

DEFAULT_SOURCES == <<"query", "body", "params">>

DEFAULT_STRATEGY == "keepLast"

True == [t |-> "bool", n |-> 1, s |-> <<>>, kids |-> <<>>]

\* Boolean(v)
Truthy(v) ==
    /\ v.t \notin {"undef", "null"}
    /\ ~(v.t = "bool" /\ v.n = 0)
    /\ ~(v.t = "num" /\ v.n = 0)
    /\ ~(v.t = "str" /\ v.s = <<>>)

\* `${source}Polluted`
PollutedKey(source) ==
    CASE source = "query" -> "queryPolluted"
      [] source = "body" -> "bodyPolluted"
      [] source = "params" -> "paramsPolluted"

\* `__hppxProcessed_${source}`
ProcessedKey(source) ==
    CASE source = "query" -> "__hppxProcessed_query"
      [] source = "body" -> "__hppxProcessed_body"
      [] source = "params" -> "__hppxProcessed_params"

PropNames ==
    {"query", "body", "params"}
        \cup {PollutedKey(s) : s \in {"query", "body", "params"}}
        \cup {ProcessedKey(s) : s \in {"query", "body", "params"}}

\* the characters of a source name
SourceName(source) ==
    CASE source = "query" -> <<"q", "u", "e", "r", "y">>
      [] source = "body" -> <<"b", "o", "d", "y">>
      [] source = "params" -> <<"p", "a", "r", "a", "m", "s">>

\* variant of PrefixKey that leaves the source name out
PrefixKey_bare(source, k) == k

\* `${source}.${k}`
PrefixKey(source, k) == SourceName(source) \o <<DOT>> \o k

STAR == "*"

\* shouldExcludePath(path, excludePaths); an absent path is the empty string
shouldExcludePath(path, excludePaths) ==
    IF path = <<>> \/ excludePaths = {} THEN FALSE
    ELSE \E p \in excludePaths :
            IF p # <<>> /\ p[Len(p)] = STAR
            THEN StartsWith(path, SubSeq(p, 1, Len(p) - 1))
            ELSE path = p

isUrlEncodedContentType(rq) == rq.contentType = "urlencoded"

\* setReqPropertySafe(req, key, value): a property that is neither
\* configurable nor writable is left alone; otherwise defineProperty or the
\* assignment stores the value
setReqPropertySafe(rq, key, value) ==
    IF key \in rq.locked THEN rq ELSE [rq EXCEPT !.props[key] = value]

Event(kind, by, source, keys, error) ==
    [kind |-> kind, by |-> by, source |-> source, keys |-> keys, err |-> error]

\* variant of ApplyWhitelist that writes the arrays back but leaves the
\* polluted tree as it was
ApplyWhitelist_keepsTree(rq, source, whitelist) ==
    LET sourceData == rq.props[source]
        pollutedData == rq.props[PollutedKey(source)]
    IN IF isPlainObject(sourceData) /\ isPlainObject(pollutedData)
       THEN LET m == moveWhitelistedFromPolluted(sourceData, pollutedData, whitelist)
            IN [rq EXCEPT !.props[source] = m.req]
       ELSE rq

\* the part and its polluted tree after moveWhitelistedFromPolluted
\* returned m (both are changed in place)
MovedBack(rq, source, m) ==
    [rq EXCEPT !.props[source] = m.req, !.props[PollutedKey(source)] = m.polluted]

\* index.ts 530-534 and 542-546: the whitelisted arrays are moved back, in
\* place, when both the part and its polluted tree are plain objects
ApplyWhitelist(rq, source, whitelist) ==
    IF isPlainObject(rq.props[source]) /\ isPlainObject(rq.props[PollutedKey(source)])
    THEN MovedBack(rq, source,
                   moveWhitelistedFromPolluted(rq.props[source],
                                               rq.props[PollutedKey(source)],
                                               whitelist))
    ELSE rq

\* variant of hasProcessedBefore that never sees the mark
hasProcessedBefore_never(rq, source) == FALSE

\* hasProcessedBefore = Boolean(req[processedKey])
hasProcessedBefore(rq, source) == Truthy(rq.props[ProcessedKey(source)])

\* index.ts 511-539: the first pass for a part, r being what detectAndReduce
\* returned or threw; st is [req, any, keys, err]: the request as mutated so
\* far, anyPollutionDetected, allPollutedKeys, and the error thrown ("none"
\* if none)
FirstPassOf(st, cfg, source, r) ==
    IF r.err # "none" THEN [st EXCEPT !.err = r.err]
    ELSE [req |-> ApplyWhitelist(
                      [setReqPropertySafe(
                           setReqPropertySafe(st.req, source, r.cleaned),
                           PollutedKey(source), r.pollutedTree)
                          EXCEPT !.props[ProcessedKey(source)] = True],
                      source, cfg.whitelist),
          any |-> st.any \/ Len(r.pollutedKeys) > 0,
          keys |-> st.keys \o [j \in 1..Len(r.pollutedKeys) |->
                                  PrefixKey(source, r.pollutedKeys[j])],
          err |-> "none"]

\* index.ts 492-548: one turn of the loop over the sources
ProcessSource(st, cfg, source) ==
    IF st.req.props[source] = Undefined THEN st
    ELSE IF /\ source = "body"
            /\ \/ cfg.checkBodyContentType = "none"
               \/ /\ cfg.checkBodyContentType = "urlencoded"
                  /\ ~isUrlEncodedContentType(st.req)
    THEN st
    ELSE IF ~isPlainObject(st.req.props[source]) THEN st
    ELSE IF ~hasProcessedBefore(st.req, source)
    THEN FirstPassOf(st, cfg, source,
                     detectAndReduce(
                         expandObjectPaths(st.req.props[source], cfg.maxKeyLength),
                         cfg))
    ELSE [st EXCEPT !.req = ApplyWhitelist(st.req, source, cfg.whitelist)]

\* the loop over the sources (index.ts 491-549) from index i on; a thrown
\* error ends the loop
RECURSIVE ProcessSources(_, _, _)
ProcessSources(st, cfg, i) ==
    IF i > Len(cfg.sources) \/ st.err # "none" THEN st
    ELSE ProcessSources(ProcessSource(st, cfg, cfg.sources[i]), cfg, i + 1)

\* index.ts 553-565: the log line
LogPollution(cfg, keys, by) ==
    IF ~cfg.logPollution THEN <<>>
    ELSE IF cfg.logger = "none" THEN <<Event("console.warn", by, "", keys, "none")>>
    ELSE IF cfg.logger = "throws"
    THEN <<Event("logger", by, "", keys, "none"),
           Event("console.warn", by, "", keys, "none")>>
    ELSE <<Event("logger", by, "", keys, "none")>>

\* variant of Callbacks that hands every callback the keys of all sources
RECURSIVE Callbacks_allKeys(_, _, _, _, _)
Callbacks_allKeys(rq, cfg, keys, by, i) ==
    IF i > Len(cfg.sources) THEN <<>>
    ELSE IF /\ Truthy(rq.props[PollutedKey(cfg.sources[i])])
            /\ Len(ObjectKeys(rq.props[PollutedKey(cfg.sources[i])])) > 0
            /\ \E j \in 1..Len(keys) :
                  StartsWith(keys[j], SourceName(cfg.sources[i]) \o <<DOT>>)
    THEN <<Event("callback", by, cfg.sources[i], keys, "none")>>
         \o (IF cfg.onPollutionDetected = "throws" THEN <<>>
             ELSE Callbacks_allKeys(rq, cfg, keys, by, i + 1))
    ELSE Callbacks_allKeys(rq, cfg, keys, by, i + 1)

\* index.ts 570-584: the calls of onPollutionDetected from source index i
\* on; a callback that throws ends the loop (index.ts 585)
RECURSIVE Callbacks(_, _, _, _, _)
Callbacks(rq, cfg, keys, by, i) ==
    IF i > Len(cfg.sources) THEN <<>>
    ELSE LET source == cfg.sources[i]
             pollutedData == rq.props[PollutedKey(source)]
             sourcePollutedKeys ==
                 SelectSeq(keys, LAMBDA k :
                              StartsWith(k, SourceName(source) \o <<DOT>>))
         IN IF /\ Truthy(pollutedData)
               /\ Len(ObjectKeys(pollutedData)) > 0
               /\ Len(sourcePollutedKeys) > 0
            THEN <<Event("callback", by, source, sourcePollutedKeys, "none")>>
                 \o (IF cfg.onPollutionDetected = "throws" THEN <<>>
                     ELSE Callbacks(rq, cfg, keys, by, i + 1))
            ELSE Callbacks(rq, cfg, keys, by, i + 1)

\* variant of CatchError in which a logger that throws keeps the error
\* from next
CatchError_loggerSwallows(rq, cfg, error, by) ==
    IF cfg.logger = "throws"
    THEN [req |-> rq,
          events |-> <<Event("logger", by, "", <<>>, error),
                       Event("next", by, "", <<>>, "none")>>,
          terminal |-> "next"]
    ELSE [req |-> rq,
          events |-> (IF cfg.logger = "none" THEN <<>>
                      ELSE <<Event("logger", by, "", <<>>, error)>>)
                     \o <<Event("next", by, "", <<>>, error)>>,
          terminal |-> "nextErr"]

\* index.ts 600-618: the catch block; the error goes to the logger, a
\* logger that throws is reported on console.error outside production, and
\* the error is handed to next
CatchError(rq, cfg, error, by) ==
    [req |-> rq,
     events |-> (IF cfg.logger = "none" THEN <<>>
                 ELSE <<Event("logger", by, "", <<>>, error)>>)
                \o (IF cfg.logger = "throws" /\ ~rq.production
                    THEN <<Event("console.error", by, "", <<>>, error)>>
                    ELSE <<>>)
                \o <<Event("next", by, "", <<>>, error)>>,
     terminal |-> "nextErr"]

\* variant of AfterSources in which a callback that throws is not caught
\* where it is called: the error reaches the catch block of the middleware
AfterSources_callbackEscapes(st, rq, cfg, by) ==
    IF st.err # "none" THEN CatchError(st.req, cfg, st.err, by)
    ELSE IF ~st.any
    THEN [req |-> st.req,
          events |-> <<Event("next", by, "", <<>>, "none")>>,
          terminal |-> "next"]
    ELSE IF /\ cfg.onPollutionDetected = "throws"
            /\ Callbacks(st.req, cfg, st.keys, by, 1) # <<>>
    THEN [req |-> st.req,
          events |-> LogPollution(cfg, st.keys, by)
                     \o Callbacks(st.req, cfg, st.keys, by, 1)
                     \o CatchError(st.req, cfg, "callback", by).events,
          terminal |-> "nextErr"]
    ELSE [req |-> st.req,
          events |-> LogPollution(cfg, st.keys, by)
                     \o (IF cfg.onPollutionDetected = "none" THEN <<>>
                         ELSE Callbacks(st.req, cfg, st.keys, by, 1))
                     \o (IF cfg.strict /\ rq.resStatus
                         THEN <<Event("res400", by, "", st.keys, "none")>>
                         ELSE <<Event("next", by, "", <<>>, "none")>>),
          terminal |-> IF cfg.strict /\ rq.resStatus THEN "res400" ELSE "next"]

\* index.ts 551-599: what the instance does once the loop over the sources
\* has ended with st
AfterSources(st, rq, cfg, by) ==
    IF st.err # "none" THEN CatchError(st.req, cfg, st.err, by)
    ELSE IF ~st.any
    THEN [req |-> st.req,
          events |-> <<Event("next", by, "", <<>>, "none")>>,
          terminal |-> "next"]
    ELSE [req |-> st.req,
          events |-> LogPollution(cfg, st.keys, by)
                     \o (IF cfg.onPollutionDetected = "none" THEN <<>>
                         ELSE Callbacks(st.req, cfg, st.keys, by, 1))
                     \o (IF cfg.strict /\ rq.resStatus
                         THEN <<Event("res400", by, "", st.keys, "none")>>
                         ELSE <<Event("next", by, "", <<>>, "none")>>),
          terminal |-> IF cfg.strict /\ rq.resStatus THEN "res400" ELSE "next"]

\* hppxMiddleware(req, res, next) of the instance `cfg`, number `by` in the
\* chain: [req, events, terminal]; terminal is next, nextErr or res400
hppxMiddleware(rq, cfg, by) ==
    IF shouldExcludePath(rq.path, cfg.excludePaths)
    THEN [req |-> rq, events |-> <<Event("next", by, "", <<>>, "none")>>,
          terminal |-> "next"]
    ELSE AfterSources(
             ProcessSources([req |-> rq, any |-> FALSE, keys |-> <<>>,
                             err |-> "none"], cfg, 1),
             rq, cfg, by)

---------------------------------------------------------------------------
(* sanitize with the two caches *)

SegmentCacheCap == 500

\* pathSegmentCache: `entries` are its entries [key, segments] for the keys
\* the calls of the model pass; `others` is the number of its entries for
\* other keys, put there by calls outside the model
EmptySegmentCache == [entries |-> {}, others |-> 0]

SegmentCacheSize(cache) == Cardinality(cache.entries) + cache.others

\* variant of parsePathSegmentsCached that answers with any entry once
\* the cache is full
parsePathSegmentsCached_anyWhenFull(cache, key) ==
    IF \E e \in cache.entries : e.key = key
    THEN [segments |-> (CHOOSE e \in cache.entries : e.key = key).segments,
          cache |-> cache]
    ELSE IF SegmentCacheSize(cache) < SegmentCacheCap
    THEN [segments |-> parsePathSegments(key),
          cache |-> [cache EXCEPT !.entries =
                        @ \cup {[key |-> key, segments |-> parsePathSegments(key)]}]]
    ELSE IF cache.entries # {}
    THEN [segments |-> (CHOOSE e \in cache.entries : TRUE).segments, cache |-> cache]
    ELSE [segments |-> parsePathSegments(key), cache |-> cache]

\* parsePathSegments with pathSegmentCache (index.ts 72-88): [segments, cache]
parsePathSegmentsCached(cache, key) ==
    IF \E e \in cache.entries : e.key = key
    THEN [segments |-> (CHOOSE e \in cache.entries : e.key = key).segments,
          cache |-> cache]
    ELSE [segments |-> parsePathSegments(key),
          cache |-> IF SegmentCacheSize(cache) < SegmentCacheCap
                    THEN [cache EXCEPT !.entries =
                             @ \cup {[key |-> key,
                                      segments |-> parsePathSegments(key)]}]
                    ELSE cache]

\* the loop of expandObjectPaths from entry i on, with the cache as the
\* calls of parsePathSegments leave it: [tree, cache]
RECURSIVE ExpandKeysCached(_, _, _, _, _)
ExpandKeysCached(obj, i, maxKeyLength, result, cache) ==
    IF i > Len(obj.kids) THEN [tree |-> result, cache |-> cache]
    ELSE LET rawKey == obj.kids[i].k
             safeKey == sanitizeKey(rawKey, maxKeyLength)
             value == obj.kids[i].v
             sub == IF isPlainObject(value)
                    THEN ExpandKeysCached(value, 1, maxKeyLength, EmptyObj, cache)
                    ELSE [tree |-> value, cache |-> cache]
             parsed == parsePathSegmentsCached(sub.cache, safeKey)
         IN IF Falsy(safeKey)
            THEN ExpandKeysCached(obj, i + 1, maxKeyLength, result, cache)
            ELSE IF Includes(safeKey, DOT) \/ Includes(safeKey, LBR)
            THEN IF Len(parsed.segments) > 0
                 THEN ExpandKeysCached(obj, i + 1, maxKeyLength,
                                       setIn(result, parsed.segments, sub.tree),
                                       parsed.cache)
                 ELSE ExpandKeysCached(obj, i + 1, maxKeyLength,
                                       Put(result, safeKey, sub.tree),
                                       parsed.cache)
            ELSE ExpandKeysCached(obj, i + 1, maxKeyLength,
                                  Put(result, safeKey, sub.tree), sub.cache)

\* walk(node, path) with the pathCache of the helper as the calls of
\* isWhitelistedPath leave it: [node, req, cache]
RECURSIVE WalkCached(_, _, _, _, _, _, _)
WalkCached(node, keys, i, path, reqPart, whitelist, cache) ==
    IF i > Len(keys) THEN [node |-> node, req |-> reqPart, cache |-> cache]
    ELSE LET k == keys[i]
             v == Get(node, k)
             curPath == Append(path, k)
             sub == WalkCached(v, ObjectKeys(v), 1, curPath, reqPart, whitelist, cache)
             m == isWhitelistedPathCached(whitelist, cache, curPath)
         IN IF isPlainObject(v)
            THEN WalkCached(IF Len(sub.node.kids) = 0 THEN Delete(node, k)
                            ELSE Put(node, k, sub.node),
                            keys, i + 1, path, sub.req, whitelist, sub.cache)
            ELSE IF m.result
            THEN WalkCached(Delete(node, k), keys, i + 1, path,
                            setIn(reqPart, NormalizedPath(curPath), v),
                            whitelist, m.cache)
            ELSE WalkCached(node, keys, i + 1, path, reqPart, whitelist, m.cache)

\* index.ts 387-400 with the value detectAndReduce returned or threw
\* and the cache as expandObjectPaths left it; the helper of the call starts
\* with an empty pathCache (index.ts 376, 206)
Finish(r, whitelist, cache) ==
    IF r.err # "none"
    THEN [err |-> r.err, cleaned |-> Undefined, pollutedTree |-> EmptyObj,
          cache |-> cache]
    ELSE [err |-> "none",
          cleaned |-> WalkCached(r.pollutedTree, ObjectKeys(r.pollutedTree), 1,
                                 <<>>, r.cleaned, whitelist, {}).req,
          pollutedTree |-> WalkCached(r.pollutedTree, ObjectKeys(r.pollutedTree),
                                      1, <<>>, r.cleaned, whitelist, {}).node,
          cache |-> cache]

\* index.ts 374-395 with expandedInput and the cache as expandObjectPaths
\* left them
Reduced(e, o) == Finish(detectAndReduce(e.tree, o), o.whitelist, e.cache)

\* sanitize(input, options) called while pathSegmentCache is `cache`:
\* [err, cleaned, pollutedTree, cache]
sanitizeCached(inp, o, cache) ==
    Reduced(IF isPlainObject(inp)
            THEN ExpandKeysCached(inp, 1, o.maxKeyLength, EmptyObj, cache)
            ELSE [tree |-> inp, cache |-> cache], o)

---------------------------------------------------------------------------
(* Bounds of the model and the inputs drawn from them *)

MaxCalls == 2
SmallArrayLength == 2
SmallKeyLength == 5
SmallDepth == 1
SmallKeys == 3

kA == <<"a">>
kB == <<"b">>
kC == <<"c">>
kAdotB == <<"a", ".", "b">>
kAdotC == <<"a", ".", "c">>
kAbrB == <<"a", "[", "b", "]">>
kAdotBdotC == <<"a", ".", "b", ".", "c">>
kAdotProtoDotB == <<"a", "."  >> \o kProto \o <<".", "b">>
kDot == <<DOT>>
kDotDot == <<DOT, DOT>>
kNul == <<"a", NUL>>
kEmpty == <<>>
kLong == [i \in 1..(SmallKeyLength + 1) |-> "a"]

\* [1, 2, ..., n]
Iota(n) == Arr([i \in 1..n |-> Num(i)])

\* [" p ", " q ", ...]: n different strings with white space around them
Padded(n) == Arr([i \in 1..n |-> Str(<<SPACE, <<"p", "q", "r", "s", "t">>[i], SPACE>>)])

Strategies == {"keepFirst", "keepLast", "combine", "invalid"}


Options(whitelists, strategies, depths, keyLimits, arrayLimits, keyLengths, trims) ==
    [whitelist : whitelists, mergeStrategy : strategies, maxDepth : depths,
     maxKeys : keyLimits, maxArrayLength : arrayLimits, maxKeyLength : keyLengths,
     trimValues : trims, preserveNull : {TRUE}]

Single(keys, vals) == {Obj(<<Entry(k, v)>>) : k \in keys, v \in vals}

Pair(keys, vals) ==
    {Obj(<<Entry(k1, v1), Entry(k2, v2)>>) :
        <<k1, v1, k2, v2>> \in {q \in keys \X vals \X keys \X vals : q[1] # q[3]}}

\* inputs of the general specification
Level0 == {Num(7), Str(<<SPACE, "x", SPACE>>)}
              \cup {Iota(n) : n \in 0..(SmallArrayLength + 1)}
              \cup {Padded(SmallArrayLength + 1)}
InnerKeys == {kB, kProto, kDot, kAdotC}
InnerObjs == Single(InnerKeys, {Num(7), Iota(2)})
                \cup {Obj(<<Entry(kProto, Num(7)), Entry(kB, Iota(2))>>)}
NestedArrs == {Arr(<<x>>) : x \in InnerObjs}
                \cup {Arr(<<Iota(SmallArrayLength), Iota(1)>>),
                      Arr(<<Arr(<<Iota(1)>>), Num(7)>>),
                      Arr(<<Num(7), Obj(<<Entry(kB, Iota(2))>>)>>)}
DeepObjs == {Obj(<<Entry(kB, x)>>) : x \in {Arr(<<Obj(<<Entry(kC, Iota(2))>>)>>),
                                            Obj(<<Entry(kC, Iota(2))>>)}}
Vals == Level0 \cup InnerObjs \cup NestedArrs \cup DeepObjs
TopKeys == {kA, kB, kAdotB, kAbrB, kAdotBdotC, kAdotProtoDotB, kProto, kConstructor,
            kDot, kDotDot, kNul, kLong, kEmpty}
PairKeys == {kA, kAdotB, kDot, kProto, kNul}
PairVals == {Num(7), Iota(SmallArrayLength + 1), Obj(<<Entry(kB, Iota(2))>>),
             Obj(<<Entry(kC, Num(7))>>)}
Inputs == Single(TopKeys, Vals) \cup Pair(PairKeys, PairVals)
Whitelists == {{}, {kA}, {kB}, {kAdotB}, {kDot}}
SanitizeOptions ==
    Options(Whitelists, Strategies, {DefaultMaxDepth}, {DefaultMaxKeys},
            {SmallArrayLength, DefaultMaxArrayLength},
            {SmallKeyLength, DefaultMaxKeyLength}, {FALSE})
    \cup Options({{}, {kA}}, {"keepFirst", "keepLast", "combine"}, {DefaultMaxDepth},
                  {DefaultMaxKeys}, {SmallArrayLength}, {DefaultMaxKeyLength},
                  {TRUE})

---------------------------------------------------------------------------
(* The state machine: one sanitize call step by step *)

\* no direct isWhitelistedPath call is made
MatchIdle ==
    /\ pathCache = {}
    /\ pathSegmentCache = EmptySegmentCache
    /\ mpath = <<>>
    /\ mmatch = FALSE

\* no middleware is mounted
MwIdle ==
    /\ received = Undefined
    /\ req = Undefined
    /\ chain = <<>>
    /\ mi = 0
    /\ events = <<>>

Fresh ==
    /\ MatchIdle
    /\ MwIdle
    /\ pc = "start"
    /\ expanded = Undefined
    /\ cleaned = Undefined
    /\ pollutedTree = EmptyObj
    /\ pollutedKeys = <<>>
    /\ keyCount = 0
    /\ err = "none"
    /\ ncalls = 1
    /\ mvalues = <<>>
    /\ mstrategy = "keepLast"
    /\ mresult = Undefined

Init ==
    /\ input \in Inputs
    /\ opts \in SanitizeOptions
    /\ Fresh

\* index.ts 373-374
Expand ==
    /\ pc = "start"
    /\ expanded' = IF isPlainObject(input)
                   THEN expandObjectPaths(input, opts.maxKeyLength) ELSE input
    /\ pc' = "expanded"
    /\ UNCHANGED <<input, opts, cleaned, pollutedTree, pollutedKeys, keyCount,
                   err, ncalls, mvalues, mstrategy, mresult, matchVars, mwVars>>

\* index.ts 387-395: detectAndReduce returns or throws
Reduce ==
    /\ pc = "expanded"
    /\ LET r == detectAndReduce(expanded, opts)
       IN /\ keyCount' = r.keyCount
          /\ err' = r.err
          /\ IF r.err # "none"
             THEN /\ pc' = "failed"
                  /\ UNCHANGED <<cleaned, pollutedTree, pollutedKeys>>
             ELSE /\ pc' = "reduced"
                  /\ cleaned' = r.cleaned
                  /\ pollutedTree' = r.pollutedTree
                  /\ pollutedKeys' = r.pollutedKeys
    /\ UNCHANGED <<input, opts, expanded, ncalls, mvalues, mstrategy, mresult,
                   matchVars, mwVars>>

\* index.ts 398-400
Restore ==
    /\ pc = "reduced"
    /\ LET m == moveWhitelistedFromPolluted(cleaned, pollutedTree, opts.whitelist)
       IN /\ cleaned' = m.req
          /\ pollutedTree' = m.polluted
    /\ pc' = "done"
    /\ UNCHANGED <<input, opts, expanded, pollutedKeys, keyCount, err, ncalls,
                   mvalues, mstrategy, mresult, matchVars, mwVars>>

Next == Expand \/ Reduce \/ Restore

Spec == Init /\ [][Next]_vars

---------------------------------------------------------------------------
(* Calls near the depth and key-count limits, and a call after a call *)

LimLeaves == {Num(7), EmptyObj}
LimObjs1 == Single({kB}, LimLeaves)
               \cup {Obj(<<Entry(kB, Num(7)), Entry(kC, Num(7))>>)}
LimObjs2 == Single({kB}, LimObjs1)
LimArrs == {Arr(<<x>>) : x \in LimObjs1 \cup {EmptyObj}}
              \cup {Arr(Iota(SmallArrayLength).kids \o <<x>>) : x \in LimObjs1}
LimVals == LimLeaves \cup LimObjs1 \cup LimObjs2 \cup LimArrs
              \cup Single({kB}, LimArrs)
LimTopKeys == {kA, kAdotB, kProto, kNul, kDotDot, kLong}
LimPairKeys == {kA, kC, kProto, kNul, kLong}
LimPairVals == {Num(7),
                Obj(<<Entry(kB, Num(7)), Entry(kC, Num(7))>>),
                Obj(<<Entry(kB, Obj(<<Entry(kB, EmptyObj)>>))>>),
                Arr(<<Obj(<<Entry(kB, EmptyObj)>>)>>)}
LimStrings == Single({kA, kEmpty, kAdotB}, {Str(<<SPACE, "x", SPACE>>)})
                 \cup Single({kA}, Single({kB, kEmpty, kAdotB}, {Str(<<"x", SPACE>>)}))
LimInputs == Single(LimTopKeys, LimVals) \cup Pair(LimPairKeys, LimPairVals)
                \cup LimStrings
LimOptions ==
    Options({{}, {kB}}, {"keepLast", "combine"}, {SmallDepth, DefaultMaxDepth},
            {SmallKeys, DefaultMaxKeys},
            {SmallArrayLength, DefaultMaxArrayLength},
            {SmallKeyLength, DefaultMaxKeyLength}, {FALSE})
    \cup Options({{}}, {"keepLast"}, {DefaultMaxDepth}, {DefaultMaxKeys},
                  {DefaultMaxArrayLength}, {DefaultMaxKeyLength}, {TRUE})

InitLim ==
    /\ input \in LimInputs
    /\ opts \in LimOptions
    /\ Fresh

\* the caller passes the returned tree to sanitize again, same options; the
\* locals of the finished call stay as they were until the new call
\* assigns them
Again ==
    /\ pc = "done"
    /\ ncalls < MaxCalls
    /\ input' = cleaned
    /\ pc' = "start"
    /\ ncalls' = ncalls + 1
    /\ UNCHANGED <<opts, expanded, cleaned, pollutedTree, pollutedKeys, keyCount,
                   err, mvalues, mstrategy, mresult, matchVars, mwVars>>

NextLim == Expand \/ Reduce \/ Restore \/ Again

SpecLim == InitLim /\ [][NextLim]_vars

---------------------------------------------------------------------------
(* mergeValues applied directly to a list of values *)

MaxMergeLen == 3

MergeVals == {Num(1), Num(2), Arr(<<Num(3), Num(4)>>), Obj(<<Entry(kA, Num(5))>>)}
MergeLists == UNION {[1..n -> MergeVals] : n \in 0..MaxMergeLen}

InitMerge ==
    /\ MatchIdle
    /\ MwIdle
    /\ input = EmptyObj
    /\ opts \in Options({{}}, {"keepLast"}, {DefaultMaxDepth}, {DefaultMaxKeys},
                        {DefaultMaxArrayLength}, {DefaultMaxKeyLength}, {FALSE})
    /\ pc = "merge"
    /\ expanded = Undefined
    /\ cleaned = Undefined
    /\ pollutedTree = EmptyObj
    /\ pollutedKeys = <<>>
    /\ keyCount = 0
    /\ err = "none"
    /\ ncalls = 0
    /\ mvalues \in MergeLists
    /\ mstrategy \in Strategies
    /\ mresult = Undefined

\* index.ts 161-176
Merge ==
    /\ pc = "merge"
    /\ mresult' = mergeValues(mvalues, mstrategy)
    /\ pc' = "merged"
    /\ UNCHANGED <<input, opts, expanded, cleaned, pollutedTree, pollutedKeys,
                   keyCount, err, ncalls, mvalues, mstrategy, matchVars, mwVars>>

NextMerge == Merge

SpecMerge == InitMerge /\ [][NextMerge]_vars

\* C3: on a non-empty list keepFirst returns the first value, keepLast the
\* last value, and a strategy that is none of keepFirst, keepLast, combine
\* returns the last value (the application always yields a value).
C3_MergeTotal ==
    (pc = "merged" /\ mvalues # <<>>) =>
        /\ mstrategy = "keepFirst" => mresult = mvalues[1]
        /\ mstrategy = "keepLast" => mresult = mvalues[Len(mvalues)]
        /\ mstrategy \notin {"keepFirst", "keepLast", "combine"}
              => mresult = mvalues[Len(mvalues)]

C3_Witness ==
    /\ pc = "merged"
    /\ mstrategy = "invalid"
    /\ Len(mvalues) = MaxMergeLen
    /\ mvalues[1] # mvalues[Len(mvalues)]
    /\ mresult = mvalues[Len(mvalues)]

---------------------------------------------------------------------------
(* isWhitelistedPath of one buildWhitelistHelpers object, called directly *)

MaxQueries == 3

\* paths as walk builds them from the keys of a polluted tree: segments
\* without '.', or the key '.'; and the empty path
MatchPaths == {<<>>, <<kA>>, <<kB>>, <<kC>>, <<kA, kB>>, <<kB, kA>>, <<kB, kC>>,
               <<kA, kB, kC>>, <<kDot>>, <<kA, kDot>>, <<kDot, kDot>>}

MatchWhitelists == {{}, {kA}, {kB}, {kC}, {kAdotB}, {kDot}, {kEmpty}, {kA, kB}}

InitMatch ==
    /\ MwIdle
    /\ input = EmptyObj
    /\ opts \in Options(MatchWhitelists, {"keepLast"}, {DefaultMaxDepth},
                        {DefaultMaxKeys}, {DefaultMaxArrayLength},
                        {DefaultMaxKeyLength}, {FALSE})
    /\ pc = "match"
    /\ expanded = Undefined
    /\ cleaned = Undefined
    /\ pollutedTree = EmptyObj
    /\ pollutedKeys = <<>>
    /\ keyCount = 0
    /\ err = "none"
    /\ ncalls = 0
    /\ mvalues = <<>>
    /\ mstrategy = "keepLast"
    /\ mresult = Undefined
    /\ MatchIdle

\* index.ts 211-245: one call of the helper, its cache kept between calls
Query ==
    /\ pc \in {"match", "matched"}
    /\ ncalls < MaxQueries
    /\ \E p \in MatchPaths :
          LET r == isWhitelistedPathCached(opts.whitelist, pathCache, p)
          IN /\ mpath' = p
             /\ mmatch' = r.result
             /\ pathCache' = r.cache
    /\ pc' = "matched"
    /\ ncalls' = ncalls + 1
    /\ UNCHANGED <<input, opts, expanded, cleaned, pollutedTree, pollutedKeys,
                   keyCount, err, mvalues, mstrategy, mresult, mwVars,
                   pathSegmentCache>>

NextMatch == Query

SpecMatch == InitMatch /\ [][NextMatch]_vars

---------------------------------------------------------------------------
(* Calls of sanitize one after the other, sharing pathSegmentCache *)

MaxCachedCalls == 2

CacheKeys == {kA, kAdotB, kAbrB, kAdotBdotC, kDot}
CacheVals == {Num(7), Iota(2), Obj(<<Entry(kAdotC, Iota(2))>>)}
CacheInputs ==
    Single(CacheKeys, CacheVals)
        \cup {Obj(<<Entry(kA, Obj(<<Entry(kB, Num(7))>>)), Entry(kAdotC, Iota(2))>>),
              Obj(<<Entry(kAdotB, Iota(2)), Entry(kAbrB, Iota(1))>>)}
CacheOptions ==
    Options({{}, {kA}, {kC}}, {"keepLast"}, {DefaultMaxDepth}, {DefaultMaxKeys},
            {DefaultMaxArrayLength}, {SmallKeyLength, DefaultMaxKeyLength}, {FALSE})

\* the module has been loaded; calls outside the model may have filled the
\* cache up to its cap
InitCache ==
    /\ MwIdle
    /\ input = EmptyObj
    /\ opts \in Options({{}}, {"keepLast"}, {DefaultMaxDepth}, {DefaultMaxKeys},
                        {DefaultMaxArrayLength}, {DefaultMaxKeyLength}, {FALSE})
    /\ pc = "idle"
    /\ expanded = Undefined
    /\ cleaned = Undefined
    /\ pollutedTree = EmptyObj
    /\ pollutedKeys = <<>>
    /\ keyCount = 0
    /\ err = "none"
    /\ ncalls = 0
    /\ mvalues = <<>>
    /\ mstrategy = "keepLast"
    /\ mresult = Undefined
    /\ pathCache = {}
    /\ mpath = <<>>
    /\ mmatch = FALSE
    /\ pathSegmentCache \in
          {[entries |-> {}, others |-> n] :
              n \in {0, SegmentCacheCap - 2, SegmentCacheCap - 1, SegmentCacheCap}}

\* what the call leaves behind when it returned or threw r
Returned(inp, o, r) ==
    /\ input' = inp
    /\ opts' = o
    /\ err' = r.err
    /\ cleaned' = r.cleaned
    /\ pollutedTree' = r.pollutedTree
    /\ pathSegmentCache' = r.cache

\* index.ts 368-401: one call of sanitize from entry to return; calls do not
\* interleave (the function is synchronous)
CachedCall ==
    /\ pc \in {"idle", "returned"}
    /\ ncalls < MaxCachedCalls
    /\ \E inp \in CacheInputs, o \in CacheOptions :
          Returned(inp, o, sanitizeCached(inp, o, pathSegmentCache))
    /\ pc' = "returned"
    /\ ncalls' = ncalls + 1
    /\ UNCHANGED <<expanded, pollutedKeys, keyCount, mvalues, mstrategy, mresult,
                   pathCache, mpath, mmatch, mwVars>>

NextCache == CachedCall

SpecCache == InitCache /\ [][NextCache]_vars

---------------------------------------------------------------------------
(* A request passing through a chain of hppx middleware instances *)

\* validateOptions: the options hppx() accepts (index.ts 405-457)
validateOptions(options) ==
    /\ options.maxDepth \in 1..100
    /\ options.maxKeys >= 1
    /\ options.maxArrayLength >= 1
    /\ options.maxKeyLength \in 1..1000
    /\ options.mergeStrategy \in {"keepFirst", "keepLast", "combine"}
    /\ \A i \in 1..Len(options.sources) :
          options.sources[i] \in {"query", "body", "params"}
    /\ options.checkBodyContentType \in {"urlencoded", "any", "none"}

\* the defaults of hppx() (index.ts 463-479)
DefaultConfig ==
    [whitelist |-> {}, mergeStrategy |-> DEFAULT_STRATEGY,
     sources |-> DEFAULT_SOURCES, checkBodyContentType |-> "urlencoded",
     excludePaths |-> {}, maxDepth |-> DefaultMaxDepth,
     maxKeys |-> DefaultMaxKeys, maxArrayLength |-> DefaultMaxArrayLength,
     maxKeyLength |-> DefaultMaxKeyLength, trimValues |-> FALSE,
     preserveNull |-> TRUE, strict |-> FALSE, onPollutionDetected |-> "none",
     logger |-> "none", logPollution |-> TRUE]

\* an instance that looks at the query only
QueryOnly == [DefaultConfig EXCEPT !.sources = <<"query">>]

pathX == <<"/", "x">>
pathSkip == <<"/", "s", "/", "1">>

\* instances that differ in whitelist and merge strategy
WhitelistConfigs ==
    {[DefaultConfig EXCEPT !.whitelist = w, !.mergeStrategy = s] :
        w \in {{}, {kA}, {kB}, {kAdotB}},
        s \in {"keepLast", "keepFirst", "combine", "invalid"}}

\* instances that differ in what they report and how
ReportConfigs ==
    {[DefaultConfig EXCEPT !.whitelist = w, !.strict = st,
                           !.onPollutionDetected = cb, !.logger = lg,
                           !.logPollution = lp] :
        w \in {{}, {kA}}, st \in BOOLEAN, cb \in {"none", "ok", "throws"},
        lg \in {"none", "ok", "throws"}, lp \in BOOLEAN}

\* instances with small limits
LimitConfigs ==
    {[DefaultConfig EXCEPT !.maxDepth = SmallDepth, !.maxKeys = k,
                           !.maxArrayLength = n, !.trimValues = tr,
                           !.logger = lg, !.strict = st] :
        k \in {SmallKeys, DefaultMaxKeys},
        n \in {SmallArrayLength, DefaultMaxArrayLength}, tr \in BOOLEAN,
        lg \in {"none", "ok", "throws"}, st \in BOOLEAN}

\* instances that differ in the parts they look at
GateConfigs ==
    {[DefaultConfig EXCEPT !.sources = ss, !.checkBodyContentType = c,
                           !.excludePaths = e] :
        ss \in {<<"query">>, <<"body", "query">>, DEFAULT_SOURCES},
        c \in {"urlencoded", "any", "none"},
        e \in {{}, {<<"/", "s", STAR>>}, {pathX}}}

\* hppx(options) throws for options that validateOptions rejects: no
\* instance exists for them
Created(configs) == {c \in configs : validateOptions(c)}

Request(query, body, params, contentType, path, locked, resStatus, production) ==
    [props |-> [name \in PropNames |->
                  CASE name = "query" -> query
                    [] name = "body" -> body
                    [] name = "params" -> params
                    [] OTHER -> Undefined],
     locked |-> locked, path |-> path, contentType |-> contentType,
     resStatus |-> resStatus, production |-> production]

ObjA(v) == Obj(<<Entry(kA, v)>>)

PollutedParts ==
    {ObjA(Iota(2)),
     Obj(<<Entry(kA, Iota(SmallArrayLength + 1)), Entry(kB, Padded(2))>>),
     Obj(<<Entry(kA, Obj(<<Entry(kB, Iota(2))>>)), Entry(kB, Num(7))>>),
     Obj(<<Entry(kAdotB, Iota(2)), Entry(kC, Iota(1))>>),
     ObjA(Arr(<<Iota(2), Iota(1)>>)),
     ObjA(Arr(<<Obj(<<Entry(kB, Iota(2))>>)>>)),
     ObjA(Iota(0))}

DeepPart == ObjA(Obj(<<Entry(kB, Obj(<<Entry(kB, EmptyObj)>>))>>))
WidePart == Obj(<<Entry(kA, Obj(<<Entry(kB, Num(7)), Entry(kC, Num(7))>>)),
                  Entry(kC, Iota(2))>>)

WhitelistRequests ==
    {Request(q, b, Undefined, "urlencoded", pathX, l, TRUE, FALSE) :
        q \in PollutedParts, b \in {Undefined, Obj(<<Entry(kB, Iota(2))>>)},
        l \in {{}, {"query"}}}

ReportRequests ==
    {Request(q, b, Undefined, "urlencoded", pathX, {}, rs, FALSE) :
        q \in {ObjA(Iota(2)), ObjA(Num(7)),
               Obj(<<Entry(kA, Iota(2)), Entry(kB, Iota(2))>>)},
        b \in {Undefined, ObjA(Iota(2))}, rs \in BOOLEAN}

LimitRequests ==
    {Request(q, b, Undefined, "urlencoded", pathX, l, TRUE, pr) :
        q \in {DeepPart, WidePart, ObjA(Padded(SmallArrayLength + 1))},
        b \in {Undefined, DeepPart, Obj(<<Entry(kB, Iota(2))>>)},
        l \in {{}, {"query"}}, pr \in BOOLEAN}

GateRequests ==
    {Request(q, b, pa, ct, pt, {}, TRUE, FALSE) :
        q \in {Undefined, ObjA(Iota(2)), Iota(2)},
        b \in {Undefined, ObjA(Iota(2))}, pa \in {Undefined, ObjA(Iota(2))},
        ct \in {"urlencoded", "json"}, pt \in {pathX, pathSkip, <<>>}}

Chains1(configs) == {<<c>> : c \in Created(configs)}
Chains2(firsts, seconds) ==
    {<<c1, c2>> : c1 \in Created(firsts), c2 \in Created(seconds)}

\* the mounted chains with the requests sent through them
WhitelistChains ==
    Chains1(WhitelistConfigs) \cup Chains2(WhitelistConfigs, WhitelistConfigs)

ReportChains ==
    Chains1(ReportConfigs)
        \cup Chains2({DefaultConfig, QueryOnly}, ReportConfigs)
        \cup Chains2(ReportConfigs, {DefaultConfig})

LimitChains ==
    Chains1(LimitConfigs) \cup Chains2({DefaultConfig, QueryOnly}, LimitConfigs)

GateChains == Chains1(GateConfigs)

Scenario(chains, requests) ==
    /\ chain \in chains
    /\ received \in requests
    /\ req = received

InitMw ==
    /\ MatchIdle
    /\ input = EmptyObj
    /\ opts \in Options({{}}, {"keepLast"}, {DefaultMaxDepth}, {DefaultMaxKeys},
                        {DefaultMaxArrayLength}, {DefaultMaxKeyLength}, {FALSE})
    /\ pc = "mw"
    /\ expanded = Undefined
    /\ cleaned = Undefined
    /\ pollutedTree = EmptyObj
    /\ pollutedKeys = <<>>
    /\ keyCount = 0
    /\ err = "none"
    /\ ncalls = 0
    /\ mvalues = <<>>
    /\ mstrategy = "keepLast"
    /\ mresult = Undefined
    /\ \/ Scenario(WhitelistChains, WhitelistRequests)
       \/ Scenario(ReportChains, ReportRequests)
       \/ Scenario(LimitChains, LimitRequests)
       \/ Scenario(GateChains, GateRequests)
    /\ mi = 1
    /\ events = <<>>

\* the request, the calls made and the next instance after the handler
\* returned r
Handled(r) ==
    /\ req' = r.req
    /\ events' = events \o r.events
    /\ mi' = mi + 1
    /\ pc' = IF r.terminal = "next" /\ mi < Len(chain) THEN "mw" ELSE "mwEnded"

\* index.ts 484-619: the instance chain[mi] handles the request; after
\* next() the following instance is up, after next(err) or the 400 response
\* no further instance runs
Middleware ==
    /\ pc = "mw"
    /\ mi <= Len(chain)
    /\ Handled(hppxMiddleware(req, chain[mi], mi))
    /\ UNCHANGED <<input, opts, expanded, cleaned, pollutedTree, pollutedKeys,
                   keyCount, err, ncalls, mvalues, mstrategy, mresult,
                   matchVars, received, chain>>

NextMw == Middleware

SpecMw == InitMw /\ [][NextMw]_vars

---------------------------------------------------------------------------
(* Vocabulary of the properties *)

ReservedNames ==
    {<<"_", "_", "p", "r", "o", "t", "o", "_", "_">>,
     <<"p", "r", "o", "t", "o", "t", "y", "p", "e">>,
     <<"c", "o", "n", "s", "t", "r", "u", "c", "t", "o", "r">>}

\* some object of the tree v, at any level, has an own key that is a
\* reserved name
RECURSIVE HasReservedKey(_)
HasReservedKey(v) ==
    IF isPlainObject(v)
    THEN \E i \in 1..Len(v.kids) :
            v.kids[i].k \in ReservedNames \/ HasReservedKey(v.kids[i].v)
    ELSE IF isArray(v) THEN \E i \in 1..Len(v.kids) : HasReservedKey(v.kids[i])
    ELSE FALSE

\* the whitelist matching rule as the specification words it: exact, leaf,
\* or a non-empty entry followed by "."
Matched(whitelist, path) ==
    /\ path # <<>>
    /\ \/ Join(path) \in whitelist
       \/ path[Len(path)] \in whitelist
       \/ \E w \in whitelist : w # <<>> /\ StartsWith(Join(path), w \o <<DOT>>)

\* no array of the tree has an array as a direct element
RECURSIVE AllFlat(_)
AllFlat(v) ==
    IF isArray(v)
    THEN \A i \in 1..Len(v.kids) : ~isArray(v.kids[i]) /\ AllFlat(v.kids[i])
    ELSE IF isPlainObject(v) THEN \A i \in 1..Len(v.kids) : AllFlat(v.kids[i].v)
    ELSE TRUE

IsScalar(v) == v.t \notin {"arr", "obj"}

\* an array all of whose elements are scalars or such arrays
RECURSIVE PureArray(_)
PureArray(v) ==
    /\ isArray(v)
    /\ \A i \in 1..Len(v.kids) : IsScalar(v.kids[i]) \/ PureArray(v.kids[i])

\* the scalars of a pure array in order, each level cut to its first `limit`
\* elements
RECURSIVE Leaves(_, _)
RECURSIVE LeavesOf(_, _)
LeavesOf(elems, limit) ==
    IF elems = <<>> THEN <<>>
    ELSE (IF isArray(Head(elems)) THEN Leaves(Head(elems), limit)
          ELSE <<Head(elems)>>) \o LeavesOf(Tail(elems), limit)

Leaves(v, limit) == LeavesOf(SubSeq(v.kids, 1, Min(Len(v.kids), limit)), limit)

\* every array of the tree has at most `limit` elements
RECURSIVE ArraysWithin(_, _)
ArraysWithin(v, limit) ==
    IF isArray(v)
    THEN Len(v.kids) <= limit
         /\ \A i \in 1..Len(v.kids) : ArraysWithin(v.kids[i], limit)
    ELSE IF isPlainObject(v)
    THEN \A i \in 1..Len(v.kids) : ArraysWithin(v.kids[i].v, limit)
    ELSE TRUE

Combine == opts.mergeStrategy = "combine"

\* the key guard's rejection conditions as the specification lists them
Rejected(key, maxKeyLength) ==
    \/ key \in ReservedNames
    \/ \E i \in 1..Len(key) : key[i] = NUL
    \/ Len(key) > maxKeyLength
    \/ Len(key) > 1 /\ \A i \in 1..Len(key) : key[i] \in {DOT, LBR, RBR}

\* the guarded copy of a value: every array cut to its first maxArrayLength
\* elements, every entry under a rejected key or the empty key removed
RECURSIVE GuardedCopy(_, _)
RECURSIVE GuardedEntries(_, _)
GuardedEntries(ps, o) ==
    IF ps = <<>> THEN <<>>
    ELSE (IF Rejected(Head(ps).k, o.maxKeyLength) \/ Head(ps).k = <<>> THEN <<>>
          ELSE <<Entry(Head(ps).k, GuardedCopy(Head(ps).v, o))>>)
         \o GuardedEntries(Tail(ps), o)

RECURSIVE GuardedElems(_, _)
GuardedElems(es, o) ==
    IF es = <<>> THEN <<>>
    ELSE <<GuardedCopy(Head(es), o)>> \o GuardedElems(Tail(es), o)

GuardedCopy(v, o) ==
    IF isArray(v)
    THEN Arr(GuardedElems(SubSeq(v.kids, 1, Min(Len(v.kids), o.maxArrayLength)), o))
    ELSE IF isPlainObject(v) THEN Obj(GuardedEntries(v.kids, o))
    ELSE v

\* the paths, through object keys only, at which the tree holds an array
RECURSIVE ArrayKeyPaths(_, _)
ArrayKeyPaths(v, path) ==
    IF isArray(v) THEN {path}
    ELSE IF isPlainObject(v)
    THEN UNION {ArrayKeyPaths(v.kids[i].v, Append(path, v.kids[i].k)) :
                   i \in 1..Len(v.kids)}
    ELSE {}

\* the paths of all arrays of the tree; an array element has the path of
\* its array
RECURSIVE AllArrayPaths(_, _)
AllArrayPaths(v, path) ==
    IF isArray(v)
    THEN {path} \cup UNION {AllArrayPaths(v.kids[i], path) : i \in 1..Len(v.kids)}
    ELSE IF isPlainObject(v)
    THEN UNION {AllArrayPaths(v.kids[i].v, Append(path, v.kids[i].k)) :
                   i \in 1..Len(v.kids)}
    ELSE {}

\* the tree has an entry at the path (through object keys)
RECURSIVE HasPath(_, _)
HasPath(v, path) ==
    IF path = <<>> THEN TRUE
    ELSE /\ isPlainObject(v)
         /\ \E i \in 1..Len(v.kids) :
               v.kids[i].k = Head(path) /\ HasPath(v.kids[i].v, Tail(path))

\* the value at the path (through object keys), which the tree has
RECURSIVE AtPath(_, _)
AtPath(v, path) ==
    IF path = <<>> THEN v
    ELSE LET i == CHOOSE j \in 1..Len(v.kids) : v.kids[j].k = Head(path)
         IN AtPath(v.kids[i].v, Tail(path))

\* a path with every segment that contains "." split at its dots
RECURSIVE Resplit(_)
RECURSIVE Pieces(_, _)
Pieces(str, cur) ==
    IF str = <<>> THEN <<cur>>
    ELSE IF Head(str) = DOT THEN <<cur>> \o Pieces(Tail(str), <<>>)
    ELSE Pieces(Tail(str), cur \o <<Head(str)>>)

Resplit(path) ==
    IF path = <<>> THEN <<>> ELSE Pieces(Head(path), <<>>) \o Resplit(Tail(path))

IsPrefix(p, q) == Len(p) <= Len(q) /\ SubSeq(q, 1, Len(p)) = p

Accepted(key, o) == ~Rejected(key, o.maxKeyLength) /\ key # <<>>

\* the depths of the plain objects of the tree that are reachable through
\* accepted keys and through the first maxArrayLength elements of arrays:
\* v itself is at depth d, a key adds 1, array membership adds nothing
RECURSIVE ObjDepths(_, _, _)
ObjDepths(v, d, o) ==
    IF isPlainObject(v)
    THEN {d} \cup UNION {ObjDepths(v.kids[i].v, d + 1, o) :
                            i \in {j \in 1..Len(v.kids) : Accepted(v.kids[j].k, o)}}
    ELSE IF isArray(v)
    THEN UNION {ObjDepths(v.kids[i], d, o) :
                   i \in 1..Min(Len(v.kids), o.maxArrayLength)}
    ELSE {}

TooDeep == \E d \in ObjDepths(expanded, 0, opts) : d > opts.maxDepth

\* the number of accepted keys of all those objects
RECURSIVE TotalKeys(_, _)
RECURSIVE TotalKeysOf(_, _, _)
TotalKeysOf(items, isObj, o) ==
    IF items = <<>> THEN 0
    ELSE (IF isObj
          THEN (IF Accepted(Head(items).k, o)
                THEN 1 + TotalKeys(Head(items).v, o) ELSE 0)
          ELSE TotalKeys(Head(items), o))
         + TotalKeysOf(Tail(items), isObj, o)

TotalKeys(v, o) ==
    IF isPlainObject(v) THEN TotalKeysOf(v.kids, TRUE, o)
    ELSE IF isArray(v)
    THEN TotalKeysOf(SubSeq(v.kids, 1, Min(Len(v.kids), o.maxArrayLength)), FALSE, o)
    ELSE 0

\* the tree without the entries, at any level, whose key is rejected
RECURSIVE StripRejected(_, _)
RECURSIVE StripEntries(_, _)
RECURSIVE StripElems(_, _)
StripEntries(ps, o) ==
    IF ps = <<>> THEN <<>>
    ELSE (IF Rejected(Head(ps).k, o.maxKeyLength) THEN <<>>
          ELSE <<Entry(Head(ps).k, StripRejected(Head(ps).v, o))>>)
         \o StripEntries(Tail(ps), o)

StripElems(es, o) ==
    IF es = <<>> THEN <<>>
    ELSE <<StripRejected(Head(es), o)>> \o StripElems(Tail(es), o)

StripRejected(v, o) ==
    IF isPlainObject(v) THEN Obj(StripEntries(v.kids, o))
    ELSE IF isArray(v) THEN Arr(StripElems(v.kids, o))
    ELSE v

Finished == pc \in {"done", "failed"}

---------------------------------------------------------------------------
(* Properties of one sanitize call *)

\* C1: the tree returned by sanitize has no own key named __proto__,
\* prototype or constructor at any level (objects inside arrays included).
C1_NoReservedKey == pc = "done" => ~HasReservedKey(cleaned)

\* an array whose element objects carry a reserved key was restored by the
\* whitelist
C1_Witness ==
    /\ pc = "done"
    /\ \E i \in 1..Len(input.kids) :
          /\ isArray(input.kids[i].v)
          /\ HasReservedKey(input.kids[i].v)
          /\ isArray(Get(cleaned, input.kids[i].k))
          /\ Len(Get(cleaned, input.kids[i].k).kids) > 0

\* C5: under combine nothing is recorded as pollution, every array of the
\* cleaned tree is flat, and an array of (arrays of) scalars becomes the
\* list of its scalars in their original order.
C5_Combine ==
    (pc \in {"reduced", "done"} /\ Combine) =>
        /\ pollutedKeys = <<>>
        /\ pollutedTree = EmptyObj
        /\ AllFlat(cleaned)
        /\ \A i \in 1..Len(expanded.kids) :
              PureArray(expanded.kids[i].v) =>
                  Get(cleaned, expanded.kids[i].k)
                      = Arr(Leaves(expanded.kids[i].v, opts.maxArrayLength))

C5_Witness ==
    /\ pc = "done"
    /\ Combine
    /\ \E i \in 1..Len(expanded.kids) :
          /\ PureArray(expanded.kids[i].v)
          /\ \E j \in 1..Len(expanded.kids[i].v.kids) :
                isArray(expanded.kids[i].v.kids[j])
          /\ Len(Get(cleaned, expanded.kids[i].k).kids) >= 2

\* a value as an object entry holds it: a string trimmed when trimValues is
\* set
AsEntryValue(v, o) == IF o.trimValues /\ v.t = "str" THEN Str(Trim(v.s)) ELSE v

\* C9: an array longer than maxArrayLength at a path the whitelist does not
\* match is cut to its first maxArrayLength elements before the merge:
\* keepFirst yields element 0, keepLast the element at index
\* maxArrayLength-1 (elements that are scalars; a string element trimmed when
\* trimValues is set), and the call does not fail.
C9_TruncateThenMerge ==
    \A i \in 1..Len(expanded.kids) :
        LET k == expanded.kids[i].k
            A == expanded.kids[i].v
        IN (/\ pc \in {"done", "failed"}
            /\ isArray(A)
            /\ Len(A.kids) > opts.maxArrayLength
            /\ ~Combine
            /\ ~Matched(opts.whitelist, <<k>>)
            /\ IsScalar(A.kids[1])
            /\ IsScalar(A.kids[opts.maxArrayLength]))
           => /\ pc = "done"
              /\ Get(cleaned, k) =
                    AsEntryValue(IF opts.mergeStrategy = "keepFirst"
                                 THEN A.kids[1]
                                 ELSE A.kids[opts.maxArrayLength], opts)

C9_Witness ==
    /\ pc = "done"
    /\ opts.mergeStrategy = "keepLast"
    /\ \E i \in 1..Len(expanded.kids) :
          /\ expanded.kids[i].v = Iota(opts.maxArrayLength + 1)
          /\ ~Matched(opts.whitelist, <<expanded.kids[i].k>>)
          /\ Get(cleaned, expanded.kids[i].k) = Num(opts.maxArrayLength)

\* C10: no array of the tree returned by sanitize has more than
\* maxArrayLength elements.
C10_ArraysWithinLimit == pc = "done" => ArraysWithin(cleaned, opts.maxArrayLength)

\* C2 as stated: at every whitelisted path P at which the expanded input
\* holds an array A, the cleaned tree at P equals A and P is absent from
\* the final pollutedTree.
C2_RoundTrip ==
    pc = "done" =>
        \A P \in ArrayKeyPaths(expanded, <<>>) :
            Matched(opts.whitelist, P) =>
                /\ HasPath(cleaned, P)
                /\ AtPath(cleaned, P) = AtPath(expanded, P)
                /\ ~HasPath(pollutedTree, P)

\* C2 amended: under a non-combine strategy, at every whitelisted path P at
\* which the expanded input holds an array A, the cleaned tree holds the
\* guarded copy of A (arrays cut to maxArrayLength, rejected keys removed)
\* at P with its dotted segments re-split, and P is absent from the final
\* pollutedTree.
C2_RoundTripGuarded ==
    (pc = "done" /\ ~Combine) =>
        \A P \in ArrayKeyPaths(expanded, <<>>) :
            Matched(opts.whitelist, P) =>
                /\ HasPath(cleaned, Resplit(P))
                /\ AtPath(cleaned, Resplit(P)) = GuardedCopy(AtPath(expanded, P), opts)
                /\ ~HasPath(pollutedTree, P)

\* a whitelisted array longer than maxArrayLength was restored, cut
C2_Witness ==
    /\ pc = "done"
    /\ ~Combine
    /\ \E P \in ArrayKeyPaths(expanded, <<>>) :
          /\ Matched(opts.whitelist, P)
          /\ Len(P) = 2
          /\ Len(AtPath(expanded, P).kids) > opts.maxArrayLength
          /\ HasPath(cleaned, P)
          /\ Len(AtPath(cleaned, P).kids) = opts.maxArrayLength

\* C4 as stated: under a non-combine strategy the cleaned tree contains an
\* array only at a path matched by the whitelist.
C4_ArraysOnlyWhitelisted ==
    (pc = "done" /\ ~Combine) =>
        \A q \in AllArrayPaths(cleaned, <<>>) : Matched(opts.whitelist, q)

\* C4 amended: under a non-combine strategy every array of the cleaned tree
\* is a restored array or lies inside one: its path extends the (re-split)
\* path of an array of the expanded input that the whitelist matches.
C4_ArraysOnlyRestored ==
    (pc = "done" /\ ~Combine) =>
        \A q \in AllArrayPaths(cleaned, <<>>) :
            \E P \in ArrayKeyPaths(expanded, <<>>) :
                Matched(opts.whitelist, P) /\ IsPrefix(Resplit(P), q)

\* a restored array holds an object with an array at a path that the
\* whitelist does not match
C4_Witness ==
    /\ pc = "done"
    /\ ~Combine
    /\ \E q \in AllArrayPaths(cleaned, <<>>) :
          /\ ~Matched(opts.whitelist, q)
          /\ \E P \in ArrayKeyPaths(expanded, <<>>) :
                Matched(opts.whitelist, P) /\ IsPrefix(P, q) /\ P # q

---------------------------------------------------------------------------
(* Properties of the limits *)

\* C6 as stated: the call fails with the depth error if and only if a plain
\* object, reachable through accepted keys and non-truncated array elements,
\* lies at a depth greater than maxDepth.
C6_DepthIff == Finished => (err = "depth" <=> TooDeep)

\* C6 amended: a depth error is raised only if such an object exists; if
\* one exists the call fails, with the depth error unless the key counter
\* passes maxKeys first (then with the key-count error); when the reachable
\* keys number at most maxKeys it fails with the depth error.
C6_DepthUnlessKeys ==
    Finished =>
        /\ err = "depth" => TooDeep
        /\ TooDeep => err \in {"depth", "keys"}
        /\ (TooDeep /\ TotalKeys(expanded, opts) <= opts.maxKeys) => err = "depth"

\* an object at depth exactly maxDepth inside an array was accepted
C6_Witness ==
    /\ pc = "done"
    /\ opts.maxDepth = SmallDepth
    /\ SmallDepth \in ObjDepths(expanded, 0, opts)
    /\ \E i \in 1..Len(expanded.kids) :
          isArray(expanded.kids[i].v) /\ ObjDepths(expanded.kids[i].v, 1, opts) # {}

\* C7 as stated: the call fails with the key-count error if and only if the
\* number of keys of all objects at all levels exceeds maxKeys, and an input
\* with exactly maxKeys keys succeeds.
C7_KeysIff ==
    Finished =>
        /\ err = "keys" <=> TotalKeys(expanded, opts) > opts.maxKeys
        /\ TotalKeys(expanded, opts) = opts.maxKeys => pc = "done"

\* C7 amended: a key-count error is raised only if the keys number more
\* than maxKeys; when no reachable object lies deeper than maxDepth, it is
\* raised if and only if they do, and an input with at most maxKeys keys
\* succeeds; the counter of a successful call ends at the number of keys of
\* that call's own input, whatever calls ran before.
C7_KeysUnlessDepth ==
    /\ Finished =>
          /\ err = "keys" => TotalKeys(expanded, opts) > opts.maxKeys
          /\ ~TooDeep =>
                /\ err = "keys" <=> TotalKeys(expanded, opts) > opts.maxKeys
                /\ TotalKeys(expanded, opts) <= opts.maxKeys => pc = "done"
    /\ pc \in {"reduced", "done"} => keyCount = TotalKeys(expanded, opts)

\* a second call, on a tree with exactly maxKeys keys, succeeded
C7_Witness ==
    /\ pc = "done"
    /\ ncalls = 2
    /\ opts.maxKeys = SmallKeys
    /\ keyCount = SmallKeys

\* C8: entries under rejected keys are never fatal and change nothing: the
\* call ends as the call on the input without those entries does, with the
\* same error or the same returned tree.
C8_RejectedKeysInert ==
    Finished =>
        LET r == sanitize(StripRejected(input, opts), opts)
        IN /\ err = r.err
           /\ pc = "done" => cleaned = r.cleaned

\* the call succeeded although the value under a rejected key would alone
\* exceed a limit, and a sibling entry was kept
C8_Witness ==
    /\ pc = "done"
    /\ Len(cleaned.kids) >= 1
    /\ \E i \in 1..Len(input.kids) :
          /\ Rejected(input.kids[i].k, opts.maxKeyLength)
          /\ sanitize(Obj(<<Entry(kA, input.kids[i].v)>>), opts).err # "none"

---------------------------------------------------------------------------
(* Flattened and nested inputs *)

\* a segment name without '.', '[', ']' or the null character, not empty and
\* not a reserved name
PlainSegment(seg) ==
    /\ seg # <<>>
    /\ seg \notin ReservedNames
    /\ \A i \in 1..Len(seg) : seg[i] \notin {DOT, LBR, RBR, NUL}

\* 's1[s2]...[sn]'
RECURSIVE Bracketed(_)
Bracketed(segs) ==
    IF segs = <<>> THEN <<>>
    ELSE <<LBR>> \o Head(segs) \o <<RBR>> \o Bracketed(Tail(segs))

BracketKey(segs) == Head(segs) \o Bracketed(Tail(segs))

\* {s1: {s2: {... sn: v}}}
RECURSIVE Nested(_, _)
Nested(segs, v) ==
    IF Len(segs) = 1 THEN Obj(<<Entry(segs[1], v)>>)
    ELSE Obj(<<Entry(Head(segs), Nested(Tail(segs), v))>>)

\* the input is one entry under a dot key of two or more plain segments
DotKeyInput ==
    /\ isPlainObject(input)
    /\ Len(input.kids) = 1
    /\ Includes(input.kids[1].k, DOT)
    /\ \A seg \in {Split(input.kids[1].k)[i] : i \in 1..Len(Split(input.kids[1].k))} :
          PlainSegment(seg)

\* the finished call ended as the call on the other input does
SameOutcome(other) ==
    LET r == sanitize(other, opts)
    IN /\ err = r.err
       /\ pc = "done" =>
             /\ cleaned = r.cleaned
             /\ pollutedTree = r.pollutedTree
             /\ pollutedKeys = r.pollutedKeys

\* C11 as stated: the call on the single dot key 's1.s2...sn' ends as the
\* calls on the bracket key 's1[s2]...[sn]' and on the nested object do:
\* same cleaned tree, same pollutedTree, same pollutedKeys.
C11_Converge ==
    (Finished /\ DotKeyInput) =>
        LET segs == Split(input.kids[1].k)
            v == input.kids[1].v
        IN /\ SameOutcome(Obj(<<Entry(BracketKey(segs), v)>>))
           /\ SameOutcome(Nested(segs, v))

\* C11 amended: the three calls end alike when the bracket key (the longest
\* of the three spellings) is no longer than maxKeyLength.
C11_ConvergeWithinKeyLength ==
    (Finished /\ DotKeyInput) =>
        LET segs == Split(input.kids[1].k)
            v == input.kids[1].v
        IN Len(BracketKey(segs)) <= opts.maxKeyLength =>
              /\ SameOutcome(Obj(<<Entry(BracketKey(segs), v)>>))
              /\ SameOutcome(Nested(segs, v))

\* a dot key of three segments holding an array was expanded and reduced
C11_Witness ==
    /\ pc = "done"
    /\ DotKeyInput
    /\ Len(Split(input.kids[1].k)) = 3
    /\ Len(BracketKey(Split(input.kids[1].k))) <= opts.maxKeyLength
    /\ isArray(input.kids[1].v)
    /\ pollutedKeys # <<>>
    /\ cleaned # EmptyObj

---------------------------------------------------------------------------
(* The whitelist matcher *)

\* C12: every call of the matcher on a path P returns TRUE if and only if P
\* is not empty and its joined string J equals a whitelist entry, or the
\* last segment of P equals one, or J starts with a non-empty entry followed
\* by '.', whatever calls were made on the same helper before.
C12_MatcherRule == pc = "matched" => (mmatch <=> Matched(opts.whitelist, mpath))

\* a leaf match answered from the cache
C12_Witness ==
    /\ pc = "matched"
    /\ mmatch
    /\ Len(mpath) = 2
    /\ Join(mpath) \notin opts.whitelist
    /\ mpath[2] \in opts.whitelist
    /\ Cardinality(pathCache) < ncalls

---------------------------------------------------------------------------
(* The polluted tree and the polluted keys *)

\* the paths, through object keys, of the values of the tree that are not
\* plain objects
RECURSIVE LeafPaths(_, _)
LeafPaths(v, path) ==
    IF isPlainObject(v)
    THEN UNION {LeafPaths(v.kids[i].v, Append(path, v.kids[i].k)) :
                   i \in 1..Len(v.kids)}
    ELSE {path}

\* the paths at which the traversal reduces an array: every array it meets,
\* those inside arrays and inside objects that are array elements included
ReducedPaths ==
    IF Combine THEN {} ELSE AllArrayPaths(GuardedCopy(expanded, opts), <<>>)

\* the paths of the outermost arrays: those not inside another array
OutermostPaths ==
    IF Combine THEN {} ELSE ArrayKeyPaths(expanded, <<>>)

\* C13 as stated: after the restoration pass the leaf paths of the
\* pollutedTree are the paths at which an array was reduced and that the
\* whitelist does not match, and each leaf is the array the expanded input
\* holds at that path (cut to maxArrayLength, rejected keys removed).
C13_PollutedExact ==
    pc = "done" =>
        /\ LeafPaths(pollutedTree, <<>>)
              = {P \in ReducedPaths : ~Matched(opts.whitelist, P)}
        /\ \A P \in LeafPaths(pollutedTree, <<>>) :
              /\ HasPath(expanded, P)
              /\ AtPath(pollutedTree, P) = GuardedCopy(AtPath(expanded, P), opts)

\* C13 amended: the leaf paths of the pollutedTree are the paths of the
\* outermost reduced arrays that the whitelist does not match; an array
\* reduced inside another array has no leaf of its own (it is part of the
\* leaf of the outermost array).
C13_PollutedOutermost ==
    pc = "done" =>
        /\ LeafPaths(pollutedTree, <<>>)
              = {P \in OutermostPaths : ~Matched(opts.whitelist, P)}
        /\ \A P \in LeafPaths(pollutedTree, <<>>) :
              /\ HasPath(expanded, P)
              /\ AtPath(pollutedTree, P) = GuardedCopy(AtPath(expanded, P), opts)

\* one outermost array was restored, another stayed in the pollutedTree
C13_Witness ==
    /\ pc = "done"
    /\ \E P \in OutermostPaths : Matched(opts.whitelist, P)
    /\ \E P \in OutermostPaths :
          /\ ~Matched(opts.whitelist, P)
          /\ HasPath(pollutedTree, P)
          /\ Len(AtPath(pollutedTree, P).kids) = opts.maxArrayLength

\* C15: under a non-combine strategy the length of pollutedKeys equals the
\* number of distinct paths at which an array was reduced, so no path is
\* listed more than once.
C15_KeysDistinct ==
    (pc \in {"reduced", "done"} /\ ~Combine) =>
        /\ Len(pollutedKeys) = Cardinality(ReducedPaths)
        /\ \A i, j \in 1..Len(pollutedKeys) :
              pollutedKeys[i] = pollutedKeys[j] => i = j

---------------------------------------------------------------------------
(* A call on a tree without arrays, and a call on the returned tree *)

RECURSIVE NoArrays(_)
NoArrays(v) ==
    IF isArray(v) THEN FALSE
    ELSE IF isPlainObject(v) THEN \A i \in 1..Len(v.kids) : NoArrays(v.kids[i].v)
    ELSE TRUE

\* no key of the tree, at any level, holds '.' or '[', and none is empty
RECURSIVE PlainKeys(_)
PlainKeys(v) ==
    IF isPlainObject(v)
    THEN \A i \in 1..Len(v.kids) :
            /\ v.kids[i].k # <<>>
            /\ \A j \in 1..Len(v.kids[i].k) : v.kids[i].k[j] \notin {DOT, LBR}
            /\ PlainKeys(v.kids[i].v)
    ELSE TRUE

\* no string of the tree starts or ends with white space
RECURSIVE NoPadding(_)
NoPadding(v) ==
    IF v.t = "str"
    THEN v.s = <<>> \/ (v.s[1] # SPACE /\ v.s[Len(v.s)] # SPACE)
    ELSE IF v.t \in {"arr", "obj"}
    THEN \A i \in 1..Len(v.kids) :
            NoPadding(IF v.t = "obj" THEN v.kids[i].v ELSE v.kids[i])
    ELSE TRUE

---------------------------------------------------------------------------
(* The keys the middleware reports *)

\* the events that carry polluted keys to the outside
ReportKinds == {"logger", "console.warn", "callback", "res400"}

IsReport(e) == e.kind \in ReportKinds /\ e.err = "none"

\* the path of a reported key `${source}.${path}`
ReportedPath(k) ==
    LET source == CHOOSE s \in {"query", "body", "params"} :
                      StartsWith(k, SourceName(s) \o <<DOT>>)
    IN Split(SubSeq(k, Len(SourceName(source)) + 2, Len(k)))

\* C14: the keys passed on to the log line, the onPollutionDetected callback
\* and the strict-mode payload contain only paths that the whitelist of the
\* reporting instance does not match.
C14_ReportedNotWhitelisted ==
    \A e \in 1..Len(events) :
        IsReport(events[e]) =>
            \A j \in 1..Len(events[e].keys) :
                ~Matched(chain[events[e].by].whitelist,
                         ReportedPath(events[e].keys[j]))


---------------------------------------------------------------------------
(* Chained instances *)

\* the request after the instances of the chain ch, from number i on, have
\* handled it one after the other (an instance that does not call next()
\* ends the chain)
RECURSIVE RunChain(_, _, _)
RunChain(rq, ch, i) ==
    IF i > Len(ch) THEN rq
    ELSE LET r == hppxMiddleware(rq, ch[i], i)
         IN IF r.terminal = "next" THEN RunChain(r.req, ch, i + 1) ELSE r.req

\* the chain with the whitelists of its instances in the reverse order
SwapWhitelists(ch) ==
    [i \in 1..Len(ch) |-> [ch[i] EXCEPT !.whitelist = ch[Len(ch) + 1 - i].whitelist]]

\* the instance looks at the part (index.ts 486-503)
LooksAt(cfg, rq, source) ==
    /\ ~shouldExcludePath(rq.path, cfg.excludePaths)
    /\ \E i \in 1..Len(cfg.sources) : cfg.sources[i] = source
    /\ source = "body" =>
          \/ cfg.checkBodyContentType = "any"
          \/ cfg.checkBodyContentType = "urlencoded" /\ isUrlEncodedContentType(rq)

\* every instance of the chain has handled the part and called next()
AllRanOn(source) ==
    /\ pc = "mwEnded"
    /\ mi = Len(chain) + 1
    /\ events[Len(events)].kind = "next"
    /\ events[Len(events)].err = "none"
    /\ isPlainObject(received.props[source])
    /\ \A i \in 1..Len(chain) : LooksAt(chain[i], received, source)

ChainWhitelist == UNION {chain[i].whitelist : i \in 1..Len(chain)}

\* what the first instance reduces
FirstExpanded(source) ==
    expandObjectPaths(received.props[source], chain[1].maxKeyLength)

FirstCleaned(source) == detectAndReduce(FirstExpanded(source), chain[1]).cleaned

ChainReduced(source) ==
    IF chain[1].mergeStrategy = "combine" THEN {}
    ELSE AllArrayPaths(GuardedCopy(FirstExpanded(source), chain[1]), <<>>)

ChainOutermost(source) ==
    IF chain[1].mergeStrategy = "combine" THEN {}
    ELSE ArrayKeyPaths(FirstExpanded(source), <<>>)

\* the part holds the original array at the matched paths and the reduced
\* value at the others
PartRestored(source, paths) ==
    \A P \in paths :
        /\ HasPath(req.props[source], Resplit(P))
        /\ AtPath(req.props[source], Resplit(P))
              = IF Matched(ChainWhitelist, P)
                THEN GuardedCopy(AtPath(FirstExpanded(source), P), chain[1])
                ELSE AtPath(FirstCleaned(source), P)

\* the final part and polluted tree are the same with the whitelists in the
\* reverse order
OrderFree(source) ==
    LET other == RunChain(received, SwapWhitelists(chain), 1)
    IN /\ other.props[source] = req.props[source]
       /\ other.props[PollutedKey(source)] = req.props[PollutedKey(source)]

---------------------------------------------------------------------------
(* A later instance on a part that is marked processed *)

\* an instance has marked the part processed
Marked(source) == req.props[ProcessedKey(source)] = True

\* the instance that is up looks at the part, which an earlier instance
\* has marked processed
LaterPass(source) ==
    /\ pc = "mw"
    /\ mi <= Len(chain)
    /\ isPlainObject(req.props[source])
    /\ LooksAt(chain[mi], req, source)
    /\ Marked(source)

\* the events of the step
NewEvents == SubSeq(events', Len(events) + 1, Len(events'))

\* the paths that the step takes out of the polluted tree of the part
Restored(source) ==
    LeafPaths(req.props[PollutedKey(source)], <<>>)
        \ LeafPaths(req'.props[PollutedKey(source)], <<>>)

\* the step changes the part only by writing polluted leaves back
OnlyRestores(source) ==
    /\ \A P \in Restored(source) :
          /\ HasPath(req'.props[source], Resplit(P))
          /\ AtPath(req'.props[source], Resplit(P))
                = AtPath(req.props[PollutedKey(source)], P)
    /\ \A L \in LeafPaths(req.props[source], <<>>) :
          (\A P \in Restored(source) :
              ~IsPrefix(Resplit(P), L) /\ ~IsPrefix(L, Resplit(P)))
          => /\ HasPath(req'.props[source], L)
             /\ AtPath(req'.props[source], L) = AtPath(req.props[source], L)
    /\ Restored(source) = {} => req'.props[source] = req.props[source]

\* C17: an instance that runs on a part already marked processed does not
\* reduce it again (the part changes only where a polluted leaf is written
\* back), adds no path to the polluted tree, reports no key of the part, and
\* raises no error and reports nothing at all when every part it looks at
\* is already marked.
C17_NoRedetect ==
    [][\A source \in {"query", "body", "params"} :
          LaterPass(source) =>
              /\ OnlyRestores(source)
              /\ LeafPaths(req'.props[PollutedKey(source)], <<>>)
                    \subseteq LeafPaths(req.props[PollutedKey(source)], <<>>)
              /\ \A e \in 1..Len(NewEvents) :
                    IsReport(NewEvents[e]) =>
                        \A j \in 1..Len(NewEvents[e].keys) :
                            ~StartsWith(NewEvents[e].keys[j],
                                        SourceName(source) \o <<DOT>>)
              /\ (\A s \in {"query", "body", "params"} :
                     (isPlainObject(req.props[s]) /\ LooksAt(chain[mi], req, s))
                         => Marked(s))
                 => NewEvents = <<Event("next", mi, "", <<>>, "none")>>
      ]_vars

\* a strict second instance with a small key limit and another strategy has
\* handled a part that the first instance had reduced and that holds more
\* keys than the second one allows, and called next()
C17_Witness ==
    /\ pc = "mwEnded"
    /\ mi = 3
    /\ chain[2].strict
    /\ chain[2].maxKeys = SmallKeys
    /\ received.props["query"] = WidePart
    /\ Len(ObjectKeys(req.props["queryPolluted"])) > 0
    /\ events[Len(events)] = Event("next", 2, "", <<>>, "none")


---------------------------------------------------------------------------
(* Strict mode *)

\* the request as the instance number i of the chain receives it
ReqBefore(i) == RunChain(received, SubSeq(chain, 1, i - 1), 1)

\* the instance number i has handled the request
HasRun(i) == i \in 1..Len(chain) /\ i < mi

EventsBy(i) == SelectSeq(events, LAMBDA e : e.by = i)

\* the parts that the instance reduces: those it looks at that are plain
\* objects and not marked processed
FirstPass(rq, cfg, source) ==
    /\ LooksAt(cfg, rq, source)
    /\ isPlainObject(rq.props[source])
    /\ rq.props[ProcessedKey(source)] # True

ReductionOf(rq, cfg, source) ==
    detectAndReduce(expandObjectPaths(rq.props[source], cfg.maxKeyLength), cfg)

\* the keys that the first-pass reductions of the instance record, each
\* with the name of its source, in the order of the sources
RECURSIVE RecordedKeys(_, _, _)
RecordedKeys(rq, cfg, i) ==
    IF i > Len(cfg.sources) THEN <<>>
    ELSE LET source == cfg.sources[i]
             r == ReductionOf(rq, cfg, source)
         IN (IF FirstPass(rq, cfg, source) /\ r.err = "none"
             THEN [j \in 1..Len(r.pollutedKeys) |->
                      SourceName(source) \o <<DOT>> \o r.pollutedKeys[j]]
             ELSE <<>>)
            \o RecordedKeys(rq, cfg, i + 1)

\* the reduction of some part fails with a fatal error
Raises(rq, cfg) ==
    \E source \in {"query", "body", "params"} :
        FirstPass(rq, cfg, source) /\ ReductionOf(rq, cfg, source).err # "none"

Responded400(i, keys) ==
    /\ \E e \in 1..Len(EventsBy(i)) :
          EventsBy(i)[e] = Event("res400", i, "", keys, "none")
    /\ \A e \in 1..Len(EventsBy(i)) : EventsBy(i)[e].kind # "next"

CalledNext(i) ==
    /\ \E e \in 1..Len(EventsBy(i)) : EventsBy(i)[e].kind = "next"
    /\ \A e \in 1..Len(EventsBy(i)) : EventsBy(i)[e].kind # "res400"

\* C18 as stated: a strict instance whose first-pass reductions record at
\* least one polluted key responds with 400 and the recorded keys, each
\* prefixed by its source name, and does not call next; when nothing is
\* recorded it calls next.
C18_StrictRejects ==
    \A i \in 1..Len(chain) :
        (HasRun(i) /\ chain[i].strict) =>
            IF RecordedKeys(ReqBefore(i), chain[i], 1) # <<>>
            THEN Responded400(i, RecordedKeys(ReqBefore(i), chain[i], 1))
            ELSE CalledNext(i)

\* C18 amended: the same when the response object has a status function and
\* no part fails with a fatal error; without a status function the strict
\* instance calls next, and a fatal error goes to next(err) whatever was
\* recorded before it.
C18_StrictRejectsWithRes ==
    \A i \in 1..Len(chain) :
        (HasRun(i) /\ chain[i].strict) =>
            IF /\ RecordedKeys(ReqBefore(i), chain[i], 1) # <<>>
               /\ received.resStatus
               /\ ~Raises(ReqBefore(i), chain[i])
            THEN Responded400(i, RecordedKeys(ReqBefore(i), chain[i], 1))
            ELSE CalledNext(i)

\* a strict instance answered 400 with keys of the query and of the body
C18_Witness ==
    /\ pc = "mwEnded"
    /\ chain[mi - 1].strict
    /\ events[Len(events)].kind = "res400"
    /\ \E j \in 1..Len(events[Len(events)].keys) :
          StartsWith(events[Len(events)].keys[j], SourceName("query") \o <<DOT>>)
    /\ \E j \in 1..Len(events[Len(events)].keys) :
          StartsWith(events[Len(events)].keys[j], SourceName("body") \o <<DOT>>)


---------------------------------------------------------------------------
(* Fatal errors in the middleware *)

\* the first part, in the order of the sources, whose reduction fails
RECURSIVE FirstFailing(_, _, _)
FirstFailing(rq, cfg, i) ==
    IF i > Len(cfg.sources) THEN "none"
    ELSE IF /\ FirstPass(rq, cfg, cfg.sources[i])
            /\ ReductionOf(rq, cfg, cfg.sources[i]).err # "none"
    THEN cfg.sources[i]
    ELSE FirstFailing(rq, cfg, i + 1)

\* C19: when the reduction of a part raises depth-exceeded or
\* key-count-exceeded, the instance calls next(err) with that error, after
\* offering it to the logger if there is one (also when the logger throws);
\* the failing part is left as received and is not marked processed; and
\* there is neither a next() without error nor a 400 response, nor does a
\* further instance run.
C19_FatalSurfaces ==
    \A i \in 1..Len(chain) :
        (HasRun(i) /\ Raises(ReqBefore(i), chain[i])) =>
            LET source == FirstFailing(ReqBefore(i), chain[i], 1)
                error == ReductionOf(ReqBefore(i), chain[i], source).err
                mine == EventsBy(i)
            IN /\ error \in {"depth", "keys"}
               /\ mine[Len(mine)] = Event("next", i, "", <<>>, error)
               /\ \A e \in 1..(Len(mine) - 1) :
                     mine[e].kind \notin {"next", "res400"}
               /\ chain[i].logger # "none" =>
                     mine[1] = Event("logger", i, "", <<>>, error)
               /\ req.props[source] = received.props[source]
               /\ req.props[ProcessedKey(source)] = Undefined
               /\ pc = "mwEnded"
               /\ mi = i + 1

\* the second instance, whose logger throws, failed on the body after the
\* first one had handled the query
C19_Witness ==
    /\ pc = "mwEnded"
    /\ mi = 3
    /\ chain[2].logger = "throws"
    /\ events[Len(events)] = Event("next", 2, "", <<>>, "depth")
    /\ req.props["body"] = DeepPart
    /\ req.props[ProcessedKey("query")] = True


---------------------------------------------------------------------------
(* Trimming *)

\* the string has no white space at either end
NoOuterSpace(str) == str = <<>> \/ (str[1] # SPACE /\ str[Len(str)] # SPACE)

\* every string of the tree, those inside arrays included, is trimmed
RECURSIVE AllStringsTrimmed(_)
AllStringsTrimmed(v) ==
    IF v.t = "str" THEN NoOuterSpace(v.s)
    ELSE IF isArray(v) THEN \A i \in 1..Len(v.kids) : AllStringsTrimmed(v.kids[i])
    ELSE IF isPlainObject(v)
    THEN \A i \in 1..Len(v.kids) : AllStringsTrimmed(v.kids[i].v)
    ELSE TRUE

\* every string that is the value of an object entry is trimmed; with
\* inArrays the objects that are array elements are looked into as well
RECURSIVE EntryStringsTrimmed(_, _)
EntryStringsTrimmed(v, inArrays) ==
    IF isPlainObject(v)
    THEN \A i \in 1..Len(v.kids) :
            IF v.kids[i].v.t = "str" THEN NoOuterSpace(v.kids[i].v.s)
            ELSE EntryStringsTrimmed(v.kids[i].v, inArrays)
    ELSE IF isArray(v) /\ inArrays
    THEN \A i \in 1..Len(v.kids) : EntryStringsTrimmed(v.kids[i], inArrays)
    ELSE TRUE

\* the leaves of the pollutedTree are the arrays of the expanded input,
\* strings untrimmed
PollutedUntrimmed ==
    \A P \in LeafPaths(pollutedTree, <<>>) :
        /\ HasPath(expanded, P)
        /\ AtPath(pollutedTree, P) = GuardedCopy(AtPath(expanded, P), opts)

\* C21 as stated: with trimValues every string leaf of the final cleaned
\* tree has no leading or trailing white space, and the arrays recorded in
\* the pollutedTree keep their untrimmed strings.
C21_AllTrimmed ==
    (pc = "done" /\ opts.trimValues) =>
        /\ AllStringsTrimmed(cleaned)
        /\ PollutedUntrimmed

\* C21 amended: with trimValues every string that is the value of an object
\* entry is trimmed, outside the arrays restored by the whitelist; strings
\* that are elements of an array (a combine result or a restored array) are
\* not trimmed; the pollutedTree keeps the untrimmed strings.
C21_EntriesTrimmed ==
    (pc = "done" /\ opts.trimValues) =>
        /\ EntryStringsTrimmed(cleaned, Combine)
        /\ PollutedUntrimmed

\* a padded string was trimmed after the merge of an array whose record in
\* the pollutedTree keeps the padding
C21_Witness ==
    /\ pc = "done"
    /\ opts.trimValues
    /\ \E P \in LeafPaths(pollutedTree, <<>>) :
          /\ \E i \in 1..Len(AtPath(pollutedTree, P).kids) :
                /\ AtPath(pollutedTree, P).kids[i].t = "str"
                /\ ~NoOuterSpace(AtPath(pollutedTree, P).kids[i].s)
          /\ HasPath(cleaned, P)
          /\ AtPath(cleaned, P).t = "str"
          /\ Len(AtPath(cleaned, P).s) = 1


---------------------------------------------------------------------------
(* The caches *)

\* the compound keys of the object, those of the objects inside it included
RECURSIVE CompoundKeys(_)
CompoundKeys(v) ==
    IF isPlainObject(v)
    THEN UNION {(IF Includes(v.kids[i].k, DOT) \/ Includes(v.kids[i].k, LBR)
                 THEN {v.kids[i].k} ELSE {}) \cup CompoundKeys(v.kids[i].v) :
                   i \in 1..Len(v.kids)}
    ELSE {}

---------------------------------------------------------------------------
(* The onPollutionDetected callback *)

\* the keys that the first-pass reduction of the source records, each with
\* the name of the source
SourceKeys(rq, cfg, source) ==
    IF FirstPass(rq, cfg, source) /\ ReductionOf(rq, cfg, source).err = "none"
    THEN [j \in 1..Len(ReductionOf(rq, cfg, source).pollutedKeys) |->
             SourceName(source) \o <<DOT>> \o ReductionOf(rq, cfg, source).pollutedKeys[j]]
    ELSE <<>>

\* the request as the instance number i leaves it
ReqAfter(i) == RunChain(received, SubSeq(chain, 1, i), 1)

CallbacksBy(i) == SelectSeq(EventsBy(i), LAMBDA e : e.kind = "callback")

\* one call per source with recorded keys, in the order of the sources
RECURSIVE OnePerSource(_, _)
OnePerSource(i, j) ==
    IF j > Len(chain[i].sources) THEN <<>>
    ELSE (IF SourceKeys(ReqBefore(i), chain[i], chain[i].sources[j]) # <<>>
          THEN <<Event("callback", i, chain[i].sources[j],
                       SourceKeys(ReqBefore(i), chain[i], chain[i].sources[j]),
                       "none")>>
          ELSE <<>>)
         \o OnePerSource(i, j + 1)

\* one call per source with recorded keys whose polluted tree is not empty
\* after the restoration pass
RECURSIVE OnePerPollutedTree(_, _)
OnePerPollutedTree(i, j) ==
    IF j > Len(chain[i].sources) THEN <<>>
    ELSE (IF /\ SourceKeys(ReqBefore(i), chain[i], chain[i].sources[j]) # <<>>
             /\ isPlainObject(ReqAfter(i).props[PollutedKey(chain[i].sources[j])])
             /\ ReqAfter(i).props[PollutedKey(chain[i].sources[j])] # EmptyObj
          THEN <<Event("callback", i, chain[i].sources[j],
                       SourceKeys(ReqBefore(i), chain[i], chain[i].sources[j]),
                       "none")>>
          ELSE <<>>)
         \o OnePerPollutedTree(i, j + 1)

\* the instance has a callback and its reductions raised no error
Reports(i) ==
    /\ HasRun(i)
    /\ chain[i].onPollutionDetected # "none"
    /\ ~Raises(ReqBefore(i), chain[i])

\* C23 as stated: the callback is invoked exactly once for each source in
\* which pollution was detected, in the order of the configured sources,
\* with the name of the source and the polluted keys of that source, each
\* prefixed by the source name, and for no other source.
C23_OncePerSource ==
    \A i \in 1..Len(chain) : Reports(i) => CallbacksBy(i) = OnePerSource(i, 1)

\* C23 amended: the callback is invoked once for each source that recorded
\* keys and whose polluted tree is not empty after the restoration pass, in
\* the order of the sources, with all the keys the source recorded; a
\* callback that throws is the last one invoked.
C23_OncePerPollutedTree ==
    \A i \in 1..Len(chain) :
        Reports(i) =>
            CallbacksBy(i)
                = IF chain[i].onPollutionDetected = "throws"
                  THEN SubSeq(OnePerPollutedTree(i, 1), 1,
                              IF OnePerPollutedTree(i, 1) = <<>> THEN 0 ELSE 1)
                  ELSE OnePerPollutedTree(i, 1)

\* the callback was invoked for the query and then for the body, each with
\* its own keys
C23_Witness ==
    /\ pc = "mwEnded"
    /\ Reports(1)
    /\ Len(CallbacksBy(1)) = 2
    /\ CallbacksBy(1)[1].source = "query"
    /\ CallbacksBy(1)[2].source = "body"
    /\ CallbacksBy(1)[1].keys # CallbacksBy(1)[2].keys


---------------------------------------------------------------------------
(* The path expander as a merge *)

\* the two trees are equal up to the order of the keys of their objects
RECURSIVE SameUnordered(_, _)
SameUnordered(v, w) ==
    IF isPlainObject(v) /\ isPlainObject(w)
    THEN /\ {v.kids[i].k : i \in 1..Len(v.kids)} = {w.kids[i].k : i \in 1..Len(w.kids)}
         /\ \A i \in 1..Len(v.kids) :
               SameUnordered(v.kids[i].v, Get(w, v.kids[i].k))
    ELSE IF isArray(v) /\ isArray(w)
    THEN /\ Len(v.kids) = Len(w.kids)
         /\ \A i \in 1..Len(v.kids) : SameUnordered(v.kids[i], w.kids[i])
    ELSE v = w

\* the object with its entries in the reverse order
Reversed(o) == Obj([i \in 1..Len(o.kids) |-> o.kids[Len(o.kids) + 1 - i]])

\* the path at which the expander stores the entry of an accepted key
TargetPath(key) ==
    IF (Includes(key, DOT) \/ Includes(key, LBR))
       /\ SelectSeq(Split(Dotted(key)), LAMBDA seg : Len(seg) > 0) # <<>>
    THEN SelectSeq(Split(Dotted(key)), LAMBDA seg : Len(seg) > 0)
    ELSE <<key>>

\* C24: when several keys of one object address the same subtree, the
\* expanded tree keeps the entries of all of them (every accepted key whose
\* path holds no reserved name has its path in the expanded tree), and the
\* expanded tree is the same whatever the order of the keys in the input.
C24_DeepMerge ==
    (pc = "expanded" /\ isPlainObject(input)) =>
        /\ \A i \in 1..Len(input.kids) :
              (/\ Accepted(input.kids[i].k, opts)
               /\ \A j \in 1..Len(TargetPath(input.kids[i].k)) :
                     TargetPath(input.kids[i].k)[j] \notin ReservedNames)
              => HasPath(expanded, TargetPath(input.kids[i].k))
        /\ SameUnordered(expanded,
                         expandObjectPaths(Reversed(input), opts.maxKeyLength))


---------------------------------------------------------------------------
(* The polluted tree after the restoration passes *)

\* no plain object below the root of the tree is empty
RECURSIVE NoEmptyBelow(_)
NoEmptyBelow(v) ==
    isPlainObject(v) =>
        \A i \in 1..Len(v.kids) :
            /\ v.kids[i].v # EmptyObj
            /\ NoEmptyBelow(v.kids[i].v)

\* the instances that have handled the request so far all looked at the part
RanOn(source) ==
    /\ mi > 1
    /\ isPlainObject(received.props[source])
    /\ \A i \in 1..(mi - 1) : LooksAt(chain[i], received, source)

\* the whitelists of the instances that have handled the request so far
WhitelistSoFar == UNION {chain[i].whitelist : i \in 1..(mi - 1)}

PollutedTreeOf(source) == req.props[PollutedKey(source)]

\* C25: after every restoration pass, the first one and those of the later
\* instances of a chain, no mapping strictly below the root of a polluted
\* tree is empty, and when every reduced path of the part is whitelisted the
\* polluted tree is the empty mapping.
C25_NoEmptySubtree ==
    \A source \in {"query", "body", "params"} :
        isPlainObject(PollutedTreeOf(source)) =>
            /\ NoEmptyBelow(PollutedTreeOf(source))
            /\ (/\ RanOn(source)
                /\ \A P \in ChainReduced(source) : Matched(WhitelistSoFar, P))
               => PollutedTreeOf(source) = EmptyObj

\* a nested array was restored by a later instance and the object that held
\* its record was pruned
C25_Witness ==
    /\ mi = 3
    /\ RanOn("query")
    /\ chain[1].whitelist = {}
    /\ chain[2].whitelist # {}
    /\ \E P \in ChainReduced("query") : Len(P) > 1
    /\ \A P \in ChainReduced("query") : Matched(chain[2].whitelist, P)
    /\ PollutedTreeOf("query") = EmptyObj
    /\ \E P \in ChainReduced("query") :
          /\ Len(P) > 1
          /\ HasPath(req.props["query"], P)
          /\ isArray(AtPath(req.props["query"], P))


\* C26: every leaf recorded in a polluted tree is an array that existed at
\* that path in the expanded input and has at least one element; an empty
\* array of the input records no pollution.
C26_LeavesAreNonEmptyArrays ==
    \A source \in {"query", "body", "params"} :
        isPlainObject(PollutedTreeOf(source)) =>
            \A P \in LeafPaths(PollutedTreeOf(source), <<>>) :
                /\ isArray(AtPath(PollutedTreeOf(source), P))
                /\ HasPath(FirstExpanded(source), P)
                /\ isArray(AtPath(FirstExpanded(source), P))
                /\ Len(AtPath(FirstExpanded(source), P).kids) >= 1


---------------------------------------------------------------------------
(* Strict mode and the whitelist *)

\* the instance recorded pollution, and after its restoration pass the
\* polluted tree of every part it reduced is empty
OnlyWhitelistedPollution(i) ==
    /\ HasRun(i)
    /\ ~Raises(ReqBefore(i), chain[i])
    /\ RecordedKeys(ReqBefore(i), chain[i], 1) # <<>>
    /\ \A source \in {"query", "body", "params"} :
          FirstPass(ReqBefore(i), chain[i], source)
              => ReqAfter(i).props[PollutedKey(source)] = EmptyObj

\* C27: when after the whitelist restoration the polluted tree of every
\* processed source is empty, a strict instance does not respond 400, emits
\* no pollution log line, and calls next().
C27_StrictSparesWhitelisted ==
    \A i \in 1..Len(chain) :
        (OnlyWhitelistedPollution(i) /\ chain[i].strict) =>
            /\ \A e \in 1..Len(EventsBy(i)) : ~IsReport(EventsBy(i)[e])
            /\ \E e \in 1..Len(EventsBy(i)) :
                  EventsBy(i)[e] = Event("next", i, "", <<>>, "none")


---------------------------------------------------------------------------
(* Rejected path writes *)

\* an accepted compound key whose path holds a reserved name
RejectedWrite(key) ==
    /\ Accepted(key, opts)
    /\ Includes(key, DOT) \/ Includes(key, LBR)
    /\ \E j \in 1..Len(TargetPath(key)) : TargetPath(key)[j] \in DANGEROUS_KEYS

\* C28: a compound key whose segments include a reserved name leaves the
\* result tree exactly as it was before the key was handled: the expanded
\* tree is the one obtained from the input without these keys (no empty
\* intermediate object is created, no value at a prefix is replaced).
C28_RejectedWriteNoEffect ==
    (pc = "expanded" /\ isPlainObject(input)) =>
        expanded =
            expandObjectPaths(
                Obj(SelectSeq(input.kids, LAMBDA e : ~RejectedWrite(e.k))),
                opts.maxKeyLength)


---------------------------------------------------------------------------
(* The key guard in the cleaned tree *)

\* a key that the expander stores under its own name
PlainKey(key) == key = kDot \/ (~Includes(key, DOT) /\ ~Includes(key, LBR))

KeysOf(v) == {v.kids[i].k : i \in 1..Len(v.kids)}

\* C29: the key guard drops an entry if and only if one of its four
\* rejection conditions holds; every other key, the single '.' and the empty
\* string included, is kept in the cleaned tree under that same key.
C29_DropsIffRejected ==
    (pc \in {"reduced", "done"} /\ isPlainObject(input)) =>
        \A i \in 1..Len(input.kids) :
            PlainKey(input.kids[i].k) =>
                (input.kids[i].k \in KeysOf(cleaned)
                    <=> ~Rejected(input.kids[i].k, opts.maxKeyLength))


---------------------------------------------------------------------------
(* The terminal action of an invocation *)

IsTerminal(e) == e.kind \in {"next", "res400"}

TerminalsBy(i) == SelectSeq(EventsBy(i), IsTerminal)

\* C30: one invocation of the middleware ends with exactly one terminal
\* action, performed once and last: next(), next(err) or the strict-mode 400
\* response, also when the logger or the callback throws; and the terminal
\* action is next(err) only when the reduction of some part raised a fatal
\* error, never because the logger or the callback threw.
C30_OneTerminal ==
    \A i \in 1..Len(chain) :
        IF HasRun(i)
        THEN /\ Len(TerminalsBy(i)) = 1
             /\ IsTerminal(EventsBy(i)[Len(EventsBy(i))])
             /\ (TerminalsBy(i)[1].kind = "next" /\ TerminalsBy(i)[1].err # "none")
                   <=> Raises(ReqBefore(i), chain[i])
        ELSE EventsBy(i) = <<>>

\* an instance whose logger and callback both throw has logged, called the
\* callback and then called next() with no argument
C30_Witness ==
    \E i \in 1..Len(chain) :
        /\ HasRun(i)
        /\ chain[i].logger = "throws"
        /\ chain[i].onPollutionDetected = "throws"
        /\ \E e \in 1..Len(EventsBy(i)) : EventsBy(i)[e].kind = "logger"
        /\ \E e \in 1..Len(EventsBy(i)) : EventsBy(i)[e].kind = "callback"
        /\ EventsBy(i)[Len(EventsBy(i))] = Event("next", i, "", <<>>, "none")

====
